---- MODULE Spec2Model ----
(***************************************************************************)
(* The deployer service of solignition: the DeployerOrchestrator's         *)
(* handlers (handleLoanRequested, processDeploymentWithRetries,            *)
(* processDeployment, processRecovery), the StateManager's store, the      *)
(* BinaryManager, the chain calls of the ProgramDeployer and the           *)
(* EventMonitor: its start and stop, its log subscription and its          *)
(* reconciliation sweep.                                                   *)
(*                                                                         *)
(* Every `await` of a handler is one step of the model: the EventEmitter   *)
(* starts the async listeners without awaiting them, so the steps of       *)
(* several handlers interleave at their awaits.                            *)
(*                                                                         *)
(* Not modelled: createdAt/updatedAt (wall-clock stamps), logging and      *)
(* metrics, and I/O errors of fs.writeFile and of the local LevelDB other  *)
(* than its refusal of operations called after close().                    *)
(***************************************************************************)
EXTENDS Integers, Sequences, FiniteSets, Bags, TLC

\* ---------------------------------------------------------------- bounds
\* Handlers that can be in flight at once.
MaxHandlers == 2
\* Deploy transactions that can land on the chain in one behaviour.
MaxDeploys == 2
\* config.maxRetries ranges over 0..MaxRetriesCfg.
MaxRetriesCfg == 3
\* config.maxRetries ranges over 0..MaxRetriesOverlap where handlers overlap.
MaxRetriesOverlap == 1
\* Crashes of the process in one behaviour.
MaxCrashes == 1
\* The largest subscription handle the chain client hands out.
MaxHandle == 2

\* The retry budgets explored while the monitor is started and stopped.
MaxRetriesMonitor == 0
\* Termination signals (SIGINT, SIGTERM) the process receives.
MaxSignals == 2
\* Loan checks pending in the reconciliation sweeps in flight.
MaxChecks == 2
\* stop() calls suspended at removeOnLogsListener at once.
MaxStops == 1
\* Payload lengths given to validateBinary: within ProbeMargin of the header
\* length and of the size limit.
ProbeMargin == 2

\* Payloads of up to MaxChunks full chunks (and a little more) are cut into
\* write instructions; ProbeSeeds byte patterns fill them.
MaxChunks == 2
ProbeSeeds == 5
\* Direct calls of deployProgram, which overlap at its awaits.
MaxInvocations == 3
\* Balances closeProgram meets, in lamports: what the deployer PDA holds
\* before the first close, and what the data account of a program holds.
MaxHeld == 2
MaxRent == 8
\* Direct calls of closeProgram, which overlap at its awaits.
MaxCloses == 2
\* Log notifications delivered to the monitor, which are processed side by
\* side, and log lines in one.
MaxBatches == 2
MaxLogLines == 2

\* ------------------------------------------------------------- constants
ChunkSize == 900
LamportsPerSol == 1000000000
ComputeUnitLimit == 400000
RetryDelayMs == 5000
MaxBinarySize == 104857600
Null == 0
NoError == ""

Loans == {"42"}

Borrower(l) == "Bxyz"
Principal(l) == "5000000000"

ElfMagic == <<127, 69, 76, 70>>
\* The payloads fetchBinaryForLoan can return: empty, two well-formed ones,
\* one with a bad header.
Binaries == { <<>>, <<127, 69, 76, 70>>, <<127, 69, 76, 70, 1>>, <<1, 2, 3, 4, 5>> }

VARIABLES
  config,      \* the DeployerConfig fields the orchestrator reads
  store,       \* StateManager: loanId -> DeploymentRecord (status "absent": no key)
  binStore,    \* BinaryManager: the files written by storeBinary
  programs,    \* chain: the programs whose deploy transaction landed, in order
  handlers,    \* the async handler invocations in flight, a bag of their frames
  sweep,       \* EventMonitor.checkExpiredLoans: the loans still to check
  monitor,     \* EventMonitor: isRunning, subscriptionId, the intervals armed
  connection,  \* chain client: its next subscription handle, its log listeners
  chainLoans,  \* chain: the state of each loan account ("none": no account)
  proc,        \* the process: the LevelDB handle, the shutdown calls in progress
  probe,       \* the direct calls of a component's method and their results
  crashes,     \* history: how many times the process has crashed and restarted
  crashMark,   \* history: number of landed deploys at the latest crash
  lastReturn   \* history: the latest return of a handler or of start()/stop()

vars == <<config, store, binStore, programs, handlers, sweep, monitor,
          connection, chainLoans, proc, probe, crashes, crashMark, lastReturn>>

\* ------------------------------------------------------------ data model
\* getDeployment's null: no record under the key.
NotFound(l) ==
  [loanId |-> l, borrower |-> "", principal |-> "", status |-> "absent",
   programId |-> Null, bufferAccount |-> Null, deployTxSignature |-> Null,
   setDeployedTxSignature |-> Null, recoveryTxSignature |-> Null,
   binaryHash |-> Null, error |-> NoError]

Exists(rec) == rec.status # "absent"

\* The k-th landed deploy uses a fresh program key and a fresh buffer key.
ProgramKey(k) == 2 * k - 1
BufferKey(k) == 2 * k
ProgramIndex(pid) == (pid + 1) \div 2

\* Transaction signatures, one per landed transaction.
DeploySig(k) == 4 * k - 3
SetSig(k) == 4 * k - 2
CloseSig(k) == 4 * k - 1

\* createHash('sha256').update(binaryData).digest('hex'), as a digest that
\* tells the payloads of Binaries apart and is never Null.
RECURSIVE Sha256Hex(_)
Sha256Hex(b) ==
  IF b = <<>> THEN 7
  ELSE ((Sha256Hex(SubSeq(b, 1, Len(b) - 1)) * 31 + b[Len(b)] + 1) % 65521) + 1

\* A file name that leaves the loanId out.
FilePathWithoutLoanId(l, hash) == ToString(hash) \o ".so"

\* path.join(storagePath, `${loanId}_${hash}.so`), below storagePath.
FilePath(l, hash) == l \o "_" \o ToString(hash) \o ".so"

\* fs.writeFile(filePath, data): the file is created or replaced.
WriteFile(files, filePath, data) ==
  {f \in files : f.path # filePath} \cup {[path |-> filePath, data |-> data]}

\* fs.readFile(filePath) fails with ENOENT when there is no such file.
FileExists(files, filePath) == \E f \in files : f.path = filePath

ReadFile(files, filePath) == (CHOOSE f \in files : f.path = filePath).data

ErrNoEntry == "Error: ENOENT: no such file or directory"

\* A validation that tests the size before the header.
ValidateBufferSizeFirst(length, head) ==
  IF length = 0 THEN [valid |-> FALSE, reason |-> "Empty binary"]
  ELSE IF length > MaxBinarySize
    THEN [valid |-> FALSE, reason |-> "Binary too large (>100MB)"]
  ELSE IF head # ElfMagic
    THEN [valid |-> FALSE, reason |-> "Invalid ELF header"]
  ELSE [valid |-> TRUE, reason |-> ""]

\* validateBinary on a Buffer of `length` bytes whose subarray(0, 4) is
\* `head`: all it reads of the payload.
ValidateBuffer(length, head) ==
  IF length = 0 THEN [valid |-> FALSE, reason |-> "Empty binary"]
  ELSE IF head # ElfMagic
    THEN [valid |-> FALSE, reason |-> "Invalid ELF header"]
  ELSE IF length > MaxBinarySize
    THEN [valid |-> FALSE, reason |-> "Binary too large (>100MB)"]
  ELSE [valid |-> TRUE, reason |-> ""]

\* A validation that accepts every payload.
ValidateBinaryAcceptsAll(b) == [valid |-> TRUE, reason |-> ""]

\* validateBinary on the payload b, of which it reads the length and
\* subarray(0, 4).
ValidateBinary(b) ==
  ValidateBuffer(Len(b), SubSeq(b, 1, IF Len(b) < 4 THEN Len(b) ELSE 4))

ValidationError(reason) ==
  CASE reason = "Empty binary" -> "Error: Binary validation failed: Empty binary"
    [] reason = "Invalid ELF header" -> "Error: Binary validation failed: Invalid ELF header"
    [] OTHER -> "Error: Binary validation failed: Binary too large (>100MB)"

ErrBinaryNotFound == "Error: Binary not found for loan. Implement binary retrieval logic."
ErrNoAdmin == "Error: Admin wallet not configured for set_deployed_program"
ErrDeploy == "Error: deploy transaction failed"
ErrSetDeployed == "Error: set_deployed_program failed"
ErrAccountNotFound == "Error: Program account not found"
ErrClose == "Error: close transaction failed"
ErrReturn == "Error: return_reclaimed_sol failed"

\* ----------------------------------------------------- record operations
\* A guard that lets a pending record through as well.
AlreadyProcessedSkipsPending(rec) ==
  Exists(rec) /\ rec.status # "failed" /\ rec.status # "pending"

\* A guard that treats a failed record as already processed too.
AlreadyProcessedEvenFailed(rec) == Exists(rec)

\* handleLoanRequested's guard: a record exists and is not failed.
AlreadyProcessed(rec) == Exists(rec) /\ rec.status # "failed"

\* The record handleLoanRequested creates: a fresh object, every optional
\* field undefined.
NewDeployment(l, borrower, principal) ==
  [NotFound(l) EXCEPT !.borrower = borrower, !.principal = principal,
                      !.status = "pending"]

MarkDeploying(dep) == [dep EXCEPT !.status = "deploying"]

\* An attempt that does not record the hash storeBinary returned.
WithBinaryHashDropped(dep, hash) == dep

WithBinaryHash(dep, hash) == [dep EXCEPT !.binaryHash = hash]

\* An attempt that records the buffer and the signature of the deploy but
\* not the program id.
WithDeployResultNoProgramId(dep, programId, bufferAccount, signature) ==
  [dep EXCEPT !.bufferAccount = bufferAccount, !.deployTxSignature = signature]

WithDeployResult(dep, programId, bufferAccount, signature) ==
  [dep EXCEPT !.programId = programId, !.bufferAccount = bufferAccount,
              !.deployTxSignature = signature]

MarkDeployed(dep, setTx) ==
  [dep EXCEPT !.setDeployedTxSignature = setTx, !.status = "deployed"]

\* A failure that records the status but not the error text.
MarkFailedNoError(dep, err) == [dep EXCEPT !.status = "failed"]

MarkFailed(dep, err) == [dep EXCEPT !.status = "failed", !.error = err]

\* A guard that lets a recovered record through as well.
RecoverableOrRecovered(rec) ==
  Exists(rec) /\ rec.status \in {"deployed", "recovered"}

\* A guard that lets a failed record through as well.
RecoverableOrFailed(rec) ==
  Exists(rec) /\ rec.status \in {"deployed", "failed"}

\* processRecovery's guard: the record exists and is deployed.
Recoverable(rec) == Exists(rec) /\ rec.status = "deployed"

MarkRecovering(dep) == [dep EXCEPT !.status = "recovering"]

\* A recovery that records the status but not the close signature.
MarkRecoveredNoSignature(dep, signature) == [dep EXCEPT !.status = "recovered"]

MarkRecovered(dep, signature) ==
  [dep EXCEPT !.recoveryTxSignature = signature, !.status = "recovered"]

RECURSIVE Pow2(_)
Pow2(n) == IF n <= 0 THEN 1 ELSE 2 * Pow2(n - 1)

\* A backoff that waits the base delay every time.
BackoffDelayConstant(attempts) == RetryDelayMs

\* The sleep after the attempts-th failed attempt.
BackoffDelay(attempts) == RetryDelayMs * Pow2(attempts - 1)

\* ------------------------------------------------- deploy instructions
\* The deployer service's wallet key, the protocol's authority PDA and the
\* system program.
DeployerWalletKey == "deployerWallet.publicKey"
AuthorityPda == "authorityPda"

\* The program every instruction built here is addressed to, and the owner
\* given to the buffer account.
BpfLoaderDeprecatedProgramId == "BPF_LOADER_DEPRECATED_PROGRAM_ID"

\* createInitializeBufferInstruction.
CreateInitializeBufferInstruction(buffer, authority) ==
  [keys |-> << [pubkey |-> buffer, isSigner |-> FALSE, isWritable |-> TRUE],
               [pubkey |-> authority, isSigner |-> FALSE,
                isWritable |-> FALSE] >>,
   programId |-> BpfLoaderDeprecatedProgramId,
   data |-> <<0>>]

\* Buffer.from(new Uint32Array([offset]).buffer): the four bytes of the
\* number, least significant first. The numbers stay below 2^31 here.
Uint32Bytes(offset) ==
  << offset % 256, (offset \div 256) % 256, (offset \div 65536) % 256,
     (offset \div 16777216) % 256 >>

\* data.slice(start, end): the bytes at the 0-based positions start..end-1.
Slice(data, start, end) == SubSeq(data, start + 1, end)

\* A chunk that stops one byte short of the chunk size.
ChunkShort(data, offset) ==
  Slice(data, offset, IF offset + ChunkSize - 1 < Len(data)
                      THEN offset + ChunkSize - 1 ELSE Len(data))

\* createWriteBufferInstructions' chunk at `offset`:
\* data.slice(offset, Math.min(offset + chunkSize, data.length)).
Chunk(data, offset) ==
  Slice(data, offset, IF offset + ChunkSize < Len(data)
                      THEN offset + ChunkSize ELSE Len(data))

\* createWriteBufferInstructions' loop from `offset` on: one instruction per
\* chunk, its data the tag 1, the offset and the chunk.
RECURSIVE WriteBufferInstructionsFrom(_, _, _, _)
WriteBufferInstructionsFrom(buffer, authority, data, offset) ==
  IF offset < Len(data)
  THEN << [keys |-> << [pubkey |-> buffer, isSigner |-> FALSE,
                        isWritable |-> TRUE],
                       [pubkey |-> authority, isSigner |-> TRUE,
                        isWritable |-> FALSE] >>,
           programId |-> BpfLoaderDeprecatedProgramId,
           data |-> <<1>> \o Uint32Bytes(offset) \o Chunk(data, offset)] >>
         \o WriteBufferInstructionsFrom(buffer, authority, data,
                                        offset + ChunkSize)
  ELSE <<>>

CreateWriteBufferInstructions(buffer, authority, data) ==
  WriteBufferInstructionsFrom(buffer, authority, data, 0)

\* createDeployWithMaxDataLenInstruction: its data is the tag 2 and the four
\* bytes of dataLen; `lamports` is not used by it.
CreateDeployWithMaxDataLenInstruction(payer, programId, buffer, upgradeAuthority, lamports, dataLen) ==
  [keys |-> << [pubkey |-> payer, isSigner |-> TRUE, isWritable |-> TRUE],
               [pubkey |-> programId, isSigner |-> TRUE, isWritable |-> TRUE],
               [pubkey |-> buffer, isSigner |-> FALSE, isWritable |-> TRUE],
               [pubkey |-> upgradeAuthority, isSigner |-> FALSE,
                isWritable |-> FALSE],
               [pubkey |-> "SystemProgram.programId", isSigner |-> FALSE,
                isWritable |-> FALSE] >>,
   programId |-> BpfLoaderDeprecatedProgramId,
   data |-> <<2>> \o Uint32Bytes(dataLen)]

\* getMinimumBalanceForRentExemption(binaryData.length + 1000): whatever the
\* RPC node answers; taken as the account size.
RentExemption(dataLen) == dataLen + 1000

\* A deploy instruction that names the service's own wallet as upgrade
\* authority.
DeployIxOwnAuthority(programId, buffer, dataLen) ==
  CreateDeployWithMaxDataLenInstruction(DeployerWalletKey, programId, buffer,
                                        DeployerWalletKey,
                                        RentExemption(dataLen), dataLen)

\* deployProgram's deployIx.
DeployIx(programId, buffer, dataLen) ==
  CreateDeployWithMaxDataLenInstruction(DeployerWalletKey, programId, buffer,
                                        AuthorityPda, RentExemption(dataLen),
                                        dataLen)

\* Keypair.generate() when `drawn` keypairs have been generated before: 32
\* random bytes, taken to differ from every earlier draw; a public key is
\* named by the rank of its draw.
GenerateKeypair(drawn) == drawn + 1

\* SystemProgram.createAccount.
CreateAccount(fromPubkey, newAccountPubkey, lamports, space, programId) ==
  [fromPubkey |-> fromPubkey, newAccountPubkey |-> newAccountPubkey,
   lamports |-> lamports, space |-> space, programId |-> programId]

\* deployProgram from the answer of getMinimumBalanceForRentExemption to its
\* sendAndConfirmTransaction: the instructions added to the transaction, in
\* order (the compute-unit limit, the account creation, the initialisation,
\* the writes, the deploy), and the signers.
DeployTransaction(bufferKeypair, programId, binaryData) ==
  LET programAccountSize == Len(binaryData) + 1000
      rentExemption == RentExemption(Len(binaryData)) IN
  [instructions |->
     << [setComputeUnitLimit |-> [units |-> ComputeUnitLimit]],
        CreateAccount(DeployerWalletKey, bufferKeypair, rentExemption,
                      programAccountSize, BpfLoaderDeprecatedProgramId),
        CreateInitializeBufferInstruction(bufferKeypair, DeployerWalletKey) >>
     \o CreateWriteBufferInstructions(bufferKeypair, DeployerWalletKey,
                                      binaryData)
     \o << DeployIx(programId, bufferKeypair, Len(binaryData)) >>,
   signers |-> <<"deployerWallet.payer", bufferKeypair, programId>>]

\* lamports / LAMPORTS_PER_SOL: the double nearest to the quotient, kept as
\* the fraction it was rounded from. Below 2^31 lamports two balances never
\* round to the same double.
ToSol(lamports) == [num |-> lamports, den |-> LamportsPerSol]

\* x doubled until it has 31 bits.
RECURSIVE Normalize(_)
Normalize(x) == IF x >= 1073741824 THEN x ELSE Normalize(x + x)

\* a * 2^s modulo 2 * LAMPORTS_PER_SOL, for a below the modulus.
RECURSIVE DoubleMod(_, _)
DoubleMod(a, s) ==
  IF s = 0 THEN a
  ELSE DoubleMod(IF a >= LamportsPerSol
                 THEN (a - LamportsPerSol) + (a - LamportsPerSol)
                 ELSE a + a, s - 1)

\* new anchor.BN(amount * LAMPORTS_PER_SOL) for the amount closeProgram
\* computed from x lamports: the division and the multiplication each round
\* to the nearest double (ties to even) and BN drops the fraction. With
\* X = x * 2^j in [2^30, 2^31), the quotient is Q / 2^(s + j), Q being
\* X * 2^s / 10^9 rounded to an integer, s = 52 when X < 2 * 10^9 and 51
\* otherwise; r is the remainder of X * 2^s by 10^9 and r2 the one by
\* 2 * 10^9 (r2 < 10^9: the integer below is even). When Q was rounded down
\* the product lies r / 2^(s + j) below x; it rounds to the double below x,
\* and BN yields x - 1, exactly when r / 2^s is more than half the distance
\* to that double: 2^-23, which r < 10^9 / 2 cannot reach for s = 52, or
\* 2^-24 when X = 2^30. In every other case BN yields x.
ToLamports(amount) ==
  LET x == amount.num
      X == Normalize(x)
      s == IF X < 2 * LamportsPerSol THEN 52 ELSE 51
      r2 == DoubleMod(X % (2 * LamportsPerSol), s)
      r == r2 % LamportsPerSol
      short == /\ X >= 2 * LamportsPerSol \/ X = 1073741824
               /\ \/ r > 268435456 /\ r + r < LamportsPerSol
                  \/ r + r = LamportsPerSol /\ r2 < LamportsPerSol
  IN IF x = 0 THEN 0 ELSE IF short THEN x - 1 ELSE x

\* createCloseAccountInstruction: the program account is a fourth key when
\* one is given (Null: the argument is left out).
CreateCloseAccountInstruction(account, recipient, authority, program) ==
  [keys |-> << [pubkey |-> account, isSigner |-> FALSE, isWritable |-> TRUE],
               [pubkey |-> recipient, isSigner |-> FALSE, isWritable |-> TRUE],
               [pubkey |-> authority, isSigner |-> TRUE, isWritable |-> FALSE] >>
            \o (IF program # Null
                THEN << [pubkey |-> program, isSigner |-> FALSE,
                         isWritable |-> TRUE] >>
                ELSE <<>>),
   programId |-> BpfLoaderDeprecatedProgramId,
   data |-> <<4>>]

\* closeProgram's reclaimedSol for the k-th program: the deployer PDA's
\* balance after the close, in SOL.
ReclaimedSol(k) == k

\* An amount argument that is not the one closeProgram returned.
ReturnAmountNone(reclaimedSol) == Null

\* The amount processRecovery passes to returnReclaimedSol.
ReturnAmount(reclaimedSol) == reclaimedSol

\* --------------------------------------------------------------- handlers
\* The frame of a handler invocation: pc names the await it is suspended at,
\* dep is its `deployment` object.
Frame(pc, l) ==
  [pc |-> pc, loanId |-> l, dep |-> NotFound(l), attempts |-> 0,
   binaryData |-> <<>>, closeSig |-> Null, reclaimedSol |-> Null,
   delays |-> <<>>]

InFlight == BagToSet(handlers)

\* subscriptionId before the first start().
Undefined == -1

\* The EventMonitor as constructed: not running, no subscription, no timer.
NewMonitor == [isRunning |-> FALSE, subscriptionId |-> Undefined, timers |-> 0]

\* A new Connection: no log listener, subscriptions numbered from `first`.
NewConnection(first) == [nextHandle |-> first, listeners |-> {}]

\* JavaScript's truthiness of subscriptionId in `if (this.subscriptionId)`.
Truthy(id) == id # Undefined /\ id # 0

\* The process after main has opened the store: no shutdown under way.
NewProcess == [db |-> "open", stopping |-> 0, closing |-> 0, exited |-> FALSE]

\* No method has been called directly: nothing stored, no keypair drawn, no
\* deployProgram or closeProgram call made, no balance on the chain accounts
\* of the probe, no log notification delivered.
NoProbe ==
  [op |-> "none", loanId |-> "", length |-> 0, head |-> <<>>, data |-> <<>>,
   hash |-> Null, valid |-> FALSE, reason |-> "", out |-> <<>>, error |-> NoError,
   stored |-> {}, keypairs |-> 0, calls |-> <<>>,
   deployerPda |-> 0, programData |-> <<>>, closes |-> <<>>,
   runs |-> <<>>, lines |-> <<>>, emitted |-> <<>>, escaped |-> FALSE]

AllIdle == handlers = EmptyBag

Init ==
  /\ config \in [maxRetries : 0..MaxRetriesCfg, adminWallet : BOOLEAN]
  /\ store = [l \in Loans |-> NotFound(l)]
  /\ binStore = {}
  /\ programs = <<>>
  /\ handlers = EmptyBag
  /\ sweep = <<>>
  /\ monitor = NewMonitor
  /\ connection = NewConnection(0)
  /\ chainLoans = [l \in Loans |-> "none"]
  /\ proc = NewProcess
  /\ probe = NoProbe
  /\ crashes = 0
  /\ crashMark = 0
  /\ lastReturn = [loanId |-> "", outcome |-> "none"]

\* processDeploymentWithRetries' catch block, up to its next await; the
\* failed attempt's binaryData has gone out of scope.
CatchDeployment(hr, err) ==
  LET a == hr.attempts + 1 IN
  IF a >= config.maxRetries
  THEN [hr EXCEPT !.attempts = a, !.dep = MarkFailed(hr.dep, err),
                  !.pc = "pdr_saveFailed", !.binaryData = <<>>]
  ELSE [hr EXCEPT !.attempts = a, !.pc = "pdr_backoff", !.binaryData = <<>>]

\* The awaits of the handlers that are a read or a write of the store.
StorePcs ==
  {"lr_get", "lr_savePending", "pd_saveDeploying", "pd_saveDeployed",
   "pdr_saveFailed", "pr_get", "pr_saveRecovering", "pr_saveRecovered",
   "pr_saveFailed"}

\* A store operation the database refuses because close() has been called:
\* the await rejects. Inside processDeployment the retry loop catches the
\* error; inside processRecovery's try block its catch does, and marks the
\* record failed. Everywhere else (the reads of the guards, the save of the
\* pending record, the saves of the catch blocks) the rejection leaves the
\* handler and the async listener un-handled.
Refused(frame) ==
  CASE frame.pc \in {"pd_saveDeploying", "pd_saveDeployed"} ->
         CatchDeployment(frame, "ModuleError: Database is not open")
    [] frame.pc \in {"pr_saveRecovering", "pr_saveRecovered"} ->
         [frame EXCEPT !.pc = "pr_saveFailed",
                       !.dep = MarkFailed(frame.dep,
                                          "ModuleError: Database is not open")]
    [] OTHER -> [frame EXCEPT !.pc = "unhandledRejection"]

\* What a handler is suspended at once it has reached frame.pc: that await;
\* for a store operation called after close(), that await when the database
\* still serves it, or what its refusal leads to (the catch block's own save
\* is a store operation again).
RECURSIVE Settlements(_)
Settlements(frame) ==
  IF proc.db = "open" \/ frame.pc \notin StorePcs
  THEN {frame}
  ELSE {frame} \cup Settlements(Refused(frame))

\* A rejection has left a listener and nothing handles it.
Rejecting == \E hr \in InFlight : hr.pc = "unhandledRejection"

\* An event listener is invoked: a new handler frame.
Start(frame) ==
  /\ BagCardinality(handlers) < MaxHandlers
  /\ \E s \in Settlements(frame) : handlers' = handlers (+) SetToBag({s})

\* A handler resumes at its await and suspends at the next one.
Resume(hr, frame) ==
  \E s \in Settlements(frame) :
    handlers' = (handlers (-) SetToBag({hr})) (+) SetToBag({s})

\* A handler returns.
Return(hr, outcome) ==
  /\ handlers' = handlers (-) SetToBag({hr})
  /\ lastReturn' = [loanId |-> hr.loanId, outcome |-> outcome]

\* The chain program creates loan l's account and logs LoanRequested.
ChainLoanRequested(l) ==
  /\ chainLoans[l] = "none"
  /\ chainLoans' = [chainLoans EXCEPT ![l] = "active"]
  /\ UNCHANGED <<config, proc, probe, store, binStore, programs, handlers, sweep, monitor,
                 connection, crashes, crashMark, lastReturn>>

\* The chain program marks loan l recovered and logs LoanRecovered.
ChainLoanRecovered(l) ==
  /\ chainLoans[l] = "active"
  /\ chainLoans' = [chainLoans EXCEPT ![l] = "recovered"]
  /\ UNCHANGED <<config, proc, probe, store, binStore, programs, handlers, sweep, monitor,
                 connection, crashes, crashMark, lastReturn>>

\* The log subscription delivers a LoanRequested log of loan l (possibly once
\* more) to a registered listener: processLogs calls the monitor's
\* handleLoanRequested, which awaits getParsedTransaction.
LogsLoanRequested(l) ==
  /\ connection.listeners # {}
  /\ chainLoans[l] # "none"
  /\ Start(Frame("mon_requested", l))
  /\ UNCHANGED <<config, proc, probe, monitor, connection, chainLoans, store, binStore, programs, sweep, crashes, crashMark,
                 lastReturn>>

\* The monitor's handleLoanRequested: getParsedTransaction resolves and the
\* event is parsed: eventMonitor.emit('loanRequested', ...), the
\* orchestrator's listener runs up to its first await, the getDeployment
\* read. Neither isRunning nor the subscription is looked at again.
EmitLoanRequested(hr) ==
  /\ hr.pc = "mon_requested"
  /\ Resume(hr, Frame("lr_get", hr.loanId))
  /\ UNCHANGED <<config, proc, probe, monitor, connection, chainLoans, store, binStore, programs, sweep, crashes, crashMark,
                 lastReturn>>

\* The monitor's handleLoanRequested or handleLoanRecovered: the transaction
\* cannot be fetched or decoded; nothing is emitted.
LogsDecodeFails(hr) ==
  /\ hr.pc \in {"mon_requested", "mon_recovered"}
  /\ handlers' = handlers (-) SetToBag({hr})
  /\ UNCHANGED <<config, proc, probe, monitor, connection, chainLoans, store, binStore, programs, sweep, crashes, crashMark,
                 lastReturn>>

\* handleLoanRequested: getDeployment resolves, the guard decides.
LoanRequestedGet(hr) ==
  LET rec == store[hr.loanId] IN
  /\ hr.pc = "lr_get"
  /\ IF AlreadyProcessed(rec)
     THEN Return(hr, "lr_guard")
     ELSE /\ Resume(hr, [hr EXCEPT !.pc = "lr_savePending",
                          !.dep = NewDeployment(hr.loanId, Borrower(hr.loanId),
                                                Principal(hr.loanId))])
          /\ UNCHANGED lastReturn
  /\ UNCHANGED <<config, proc, probe, monitor, connection, chainLoans, store, binStore, programs, sweep, crashes, crashMark>>

\* handleLoanRequested: saveDeployment(pending) completes; the retry loop
\* starts, and does nothing when maxRetries is 0.
LoanRequestedSavePending(hr) ==
  /\ hr.pc = "lr_savePending"
  /\ store' = [store EXCEPT ![hr.loanId] = hr.dep]
  /\ IF hr.attempts < config.maxRetries
     THEN /\ Resume(hr, [hr EXCEPT !.pc = "pd_saveDeploying",
                                   !.dep = MarkDeploying(hr.dep)])
          /\ UNCHANGED lastReturn
     ELSE Return(hr, "lr_noAttempt")
  /\ UNCHANGED <<config, proc, probe, monitor, connection, chainLoans, binStore, programs, sweep, crashes, crashMark>>

\* An attempt that goes on to fetch the binary without having saved the
\* deploying status.
DeploymentSkipSaveDeploying(hr) ==
  /\ hr.pc = "pd_saveDeploying"
  /\ Resume(hr, [hr EXCEPT !.pc = "pd_fetch"])
  /\ UNCHANGED <<config, proc, probe, monitor, connection, chainLoans, store,
                 binStore, programs, sweep, crashes, crashMark, lastReturn>>

\* processDeployment: saveDeployment(deploying) completes.
DeploymentSaveDeploying(hr) ==
  /\ hr.pc = "pd_saveDeploying"
  /\ store' = [store EXCEPT ![hr.loanId] = hr.dep]
  /\ Resume(hr, [hr EXCEPT !.pc = "pd_fetch"])
  /\ UNCHANGED <<config, proc, probe, monitor, connection, chainLoans, binStore, programs, sweep, crashes, crashMark, lastReturn>>

\* processDeployment: fetchBinaryForLoan throws.
DeploymentFetchFails(hr) ==
  /\ hr.pc = "pd_fetch"
  /\ Resume(hr, CatchDeployment(hr, ErrBinaryNotFound))
  /\ UNCHANGED <<config, proc, probe, monitor, connection, chainLoans, store, binStore, programs, sweep, crashes, crashMark,
                 lastReturn>>

\* processDeployment: fetchBinaryForLoan returns b, validateBinary judges it.
DeploymentFetch(hr, b) ==
  LET validation == ValidateBinary(b) IN
  /\ hr.pc = "pd_fetch"
  /\ Resume(hr, IF validation.valid
                THEN [hr EXCEPT !.pc = "pd_store", !.binaryData = b]
                ELSE CatchDeployment([hr EXCEPT !.binaryData = b],
                                     ValidationError(validation.reason)))
  /\ UNCHANGED <<config, proc, probe, monitor, connection, chainLoans, store, binStore, programs, sweep, crashes, crashMark,
                 lastReturn>>

\* processDeployment: storeBinary writes the file and returns the hash;
\* deployProgram is called.
DeploymentStore(hr) ==
  LET hash == Sha256Hex(hr.binaryData) IN
  /\ hr.pc = "pd_store"
  /\ binStore' = WriteFile(binStore, FilePath(hr.loanId, hash), hr.binaryData)
  /\ Resume(hr, [hr EXCEPT !.pc = "pd_deploy", !.dep = WithBinaryHash(hr.dep, hash)])
  /\ UNCHANGED <<config, proc, probe, monitor, connection, chainLoans, store, programs, sweep, crashes, crashMark, lastReturn>>

\* processDeployment: deployProgram throws, no transaction landed.
DeploymentDeployFails(hr) ==
  /\ hr.pc = "pd_deploy"
  /\ Resume(hr, CatchDeployment(hr, ErrDeploy))
  /\ UNCHANGED <<config, proc, probe, monitor, connection, chainLoans, store, binStore, programs, sweep, crashes, crashMark,
                 lastReturn>>

\* processDeployment: the deploy transaction lands; setDeployedProgram is
\* called and throws at once when no admin wallet is configured.
DeploymentDeploy(hr) ==
  LET k == Len(programs) + 1
      next == [hr EXCEPT !.dep = WithDeployResult(hr.dep, ProgramKey(k),
                                                  BufferKey(k), DeploySig(k))] IN
  /\ hr.pc = "pd_deploy"
  /\ Len(programs) < MaxDeploys
  /\ programs' = Append(programs,
        [loanId |-> hr.loanId, binary |-> hr.binaryData, closed |-> FALSE,
         returned |-> FALSE, returnedAmount |-> Null,
         upgradeAuthority |->
           DeployIx(ProgramKey(k), BufferKey(k), Len(hr.binaryData)).keys[4].pubkey])
  /\ Resume(hr, IF config.adminWallet
                THEN [next EXCEPT !.pc = "pd_setDeployed"]
                ELSE CatchDeployment(next, ErrNoAdmin))
  /\ UNCHANGED <<config, proc, probe, monitor, connection, chainLoans, store, binStore, sweep, crashes, crashMark, lastReturn>>

\* processDeployment: the set_deployed_program transaction fails.
DeploymentSetDeployedFails(hr) ==
  /\ hr.pc = "pd_setDeployed"
  /\ Resume(hr, CatchDeployment(hr, ErrSetDeployed))
  /\ UNCHANGED <<config, proc, probe, monitor, connection, chainLoans, store, binStore, programs, sweep, crashes, crashMark,
                 lastReturn>>

\* processDeployment: the set_deployed_program transaction lands.
DeploymentSetDeployed(hr) ==
  LET k == ProgramIndex(hr.dep.programId) IN
  /\ hr.pc = "pd_setDeployed"
  /\ Resume(hr, [hr EXCEPT !.pc = "pd_saveDeployed",
                           !.dep = MarkDeployed(hr.dep, SetSig(k))])
  /\ UNCHANGED <<config, proc, probe, monitor, connection, chainLoans, store, binStore, programs, sweep, crashes, crashMark,
                 lastReturn>>

\* processDeployment: saveDeployment(deployed) completes, the handler returns.
DeploymentSaveDeployed(hr) ==
  /\ hr.pc = "pd_saveDeployed"
  /\ store' = [store EXCEPT ![hr.loanId] = hr.dep]
  /\ Return(hr, "lr_deployed")
  /\ UNCHANGED <<config, proc, probe, monitor, connection, chainLoans, binStore, programs, sweep, crashes, crashMark>>

\* processDeploymentWithRetries: saveDeployment(failed) completes after the
\* last attempt, the handler returns.
DeploymentSaveFailed(hr) ==
  /\ hr.pc = "pdr_saveFailed"
  /\ store' = [store EXCEPT ![hr.loanId] = hr.dep]
  /\ Return(hr, "lr_failed")
  /\ UNCHANGED <<config, proc, probe, monitor, connection, chainLoans, binStore, programs, sweep, crashes, crashMark>>

\* processDeploymentWithRetries: the backoff sleep ends, the next attempt
\* starts.
DeploymentBackoff(hr) ==
  /\ hr.pc = "pdr_backoff"
  /\ Resume(hr, [hr EXCEPT !.pc = "pd_saveDeploying", !.dep = MarkDeploying(hr.dep),
                           !.delays = Append(hr.delays, BackoffDelay(hr.attempts))])
  /\ UNCHANGED <<config, proc, probe, monitor, connection, chainLoans, store, binStore, programs, sweep, crashes, crashMark,
                 lastReturn>>

\* The log subscription delivers a LoanRecovered log of loan l to a
\* registered listener: processLogs calls the monitor's handleLoanRecovered,
\* which awaits getParsedTransaction.
LogsLoanRecovered(l) ==
  /\ connection.listeners # {}
  /\ chainLoans[l] = "recovered"
  /\ Start(Frame("mon_recovered", l))
  /\ UNCHANGED <<config, proc, probe, monitor, connection, chainLoans, store, binStore, programs, sweep, crashes, crashMark,
                 lastReturn>>

\* The monitor's handleLoanRecovered: getParsedTransaction resolves and the
\* event is parsed: eventMonitor.emit('loanRecovered', ...), the
\* orchestrator's handleLoanRecovered calls processRecovery, which runs up
\* to its getDeployment read.
EmitLoanRecovered(hr) ==
  /\ hr.pc = "mon_recovered"
  /\ Resume(hr, Frame("pr_get", hr.loanId))
  /\ UNCHANGED <<config, proc, probe, monitor, connection, chainLoans, store, binStore, programs, sweep, crashes, crashMark,
                 lastReturn>>

\* processRecovery: getDeployment resolves, the guard decides.
RecoveryGet(hr) ==
  LET rec == store[hr.loanId] IN
  /\ hr.pc = "pr_get"
  /\ IF Recoverable(rec)
     THEN /\ Resume(hr, [hr EXCEPT !.pc = "pr_saveRecovering",
                                   !.dep = MarkRecovering(rec)])
          /\ UNCHANGED lastReturn
     ELSE Return(hr, "pr_guard")
  /\ UNCHANGED <<config, proc, probe, monitor, connection, chainLoans, store, binStore, programs, sweep, crashes, crashMark>>

\* processRecovery: saveDeployment(recovering) completes; without a
\* programId the handler returns here.
RecoverySaveRecovering(hr) ==
  /\ hr.pc = "pr_saveRecovering"
  /\ store' = [store EXCEPT ![hr.loanId] = hr.dep]
  /\ IF hr.dep.programId # Null
     THEN /\ Resume(hr, [hr EXCEPT !.pc = "pr_close"])
          /\ UNCHANGED lastReturn
     ELSE Return(hr, "pr_noProgram")
  /\ UNCHANGED <<config, proc, probe, monitor, connection, chainLoans, binStore, programs, sweep, crashes, crashMark>>

\* A recovery whose catch starts the try block again.
RecoveryCloseFailsAndRetries(hr) ==
  /\ hr.pc = "pr_close"
  /\ Resume(hr, [hr EXCEPT !.pc = "pr_saveRecovering"])
  /\ UNCHANGED <<config, proc, probe, monitor, connection, chainLoans, store,
                 binStore, programs, sweep, crashes, crashMark, lastReturn>>

\* processRecovery: closeProgram throws before its close transaction is
\* confirmed; the catch block marks the record failed.
RecoveryCloseFails(hr) ==
  /\ hr.pc = "pr_close"
  /\ \E err \in {ErrAccountNotFound, ErrClose} :
       Resume(hr, [hr EXCEPT !.pc = "pr_saveFailed",
                             !.dep = MarkFailed(hr.dep, err)])
  /\ UNCHANGED <<config, proc, probe, monitor, connection, chainLoans, store, binStore, programs, sweep, crashes, crashMark,
                 lastReturn>>

\* closeProgram: getAccountInfo resolved to the program account and the
\* close transaction is confirmed; getBalance is awaited.
RecoveryClose(hr) ==
  LET k == ProgramIndex(hr.dep.programId) IN
  /\ hr.pc = "pr_close"
  /\ programs' = [programs EXCEPT ![k].closed = TRUE]
  /\ Resume(hr, [hr EXCEPT !.pc = "pr_balance", !.closeSig = CloseSig(k)])
  /\ UNCHANGED <<config, proc, probe, monitor, connection, chainLoans, store, binStore, sweep, crashes, crashMark, lastReturn>>

\* closeProgram: getBalance throws after the close was confirmed: the
\* program stays closed, closeProgram rethrows, the catch block of
\* processRecovery marks the record failed.
RecoveryCloseBalanceFails(hr) ==
  /\ hr.pc = "pr_balance"
  /\ Resume(hr, [hr EXCEPT !.pc = "pr_saveFailed",
                           !.dep = MarkFailed(hr.dep, ErrClose)])
  /\ UNCHANGED <<config, proc, probe, monitor, connection, chainLoans, store, binStore, programs, sweep, crashes, crashMark,
                 lastReturn>>

\* closeProgram: getBalance resolves; closeProgram returns the balance and
\* the signature, returnReclaimedSol is called.
RecoveryCloseBalance(hr) ==
  LET k == ProgramIndex(hr.dep.programId) IN
  /\ hr.pc = "pr_balance"
  /\ Resume(hr, [hr EXCEPT !.pc = "pr_return", !.reclaimedSol = ReclaimedSol(k)])
  /\ UNCHANGED <<config, proc, probe, monitor, connection, chainLoans, store, binStore, programs, sweep, crashes, crashMark,
                 lastReturn>>

\* processRecovery: returnReclaimedSol throws.
RecoveryReturnFails(hr) ==
  /\ hr.pc = "pr_return"
  /\ Resume(hr, [hr EXCEPT !.pc = "pr_saveFailed",
                           !.dep = MarkFailed(hr.dep, ErrReturn)])
  /\ UNCHANGED <<config, proc, probe, monitor, connection, chainLoans, store, binStore, programs, sweep, crashes, crashMark,
                 lastReturn>>

\* processRecovery: the return_reclaimed_sol transaction lands.
RecoveryReturn(hr) ==
  LET k == ProgramIndex(hr.dep.programId) IN
  /\ hr.pc = "pr_return"
  /\ programs' = [programs EXCEPT ![k].returned = TRUE,
                                  ![k].returnedAmount = ReturnAmount(hr.reclaimedSol)]
  /\ Resume(hr, [hr EXCEPT !.pc = "pr_saveRecovered",
                           !.dep = MarkRecovered(hr.dep, hr.closeSig)])
  /\ UNCHANGED <<config, proc, probe, monitor, connection, chainLoans, store, binStore, sweep, crashes, crashMark, lastReturn>>

\* processRecovery: saveDeployment(recovered) completes, the handler returns.
RecoverySaveRecovered(hr) ==
  /\ hr.pc = "pr_saveRecovered"
  /\ store' = [store EXCEPT ![hr.loanId] = hr.dep]
  /\ Return(hr, "pr_recovered")
  /\ UNCHANGED <<config, proc, probe, monitor, connection, chainLoans, binStore, programs, sweep, crashes, crashMark>>

\* processRecovery's catch: saveDeployment(failed) completes, the handler
\* returns.
RecoverySaveFailed(hr) ==
  /\ hr.pc = "pr_saveFailed"
  /\ store' = [store EXCEPT ![hr.loanId] = hr.dep]
  /\ Return(hr, "pr_failed")
  /\ UNCHANGED <<config, proc, probe, monitor, connection, chainLoans, binStore, programs, sweep, crashes, crashMark>>

\* ------------------------------------------------------------- the sweep
\* checkExpiredLoans: getAllDeployments, filtered to the deployed records,
\* in key order.
\* A sweep that lists the records under recovery instead of the deployed
\* ones.
IsActiveRecovering(l) == store[l].status = "recovering"

IsActive(l) == store[l].status = "deployed"

ActiveLoans == SelectSeq(<<"42">>, IsActive)

\* ----------------------------------------------------------- the monitor
\* A start() without the isRunning guard: it subscribes and arms an interval
\* on every call.
MonitorStartUnguarded ==
  /\ connection.nextHandle <= MaxHandle
  /\ monitor' = [isRunning |-> TRUE,
                 subscriptionId |-> connection.nextHandle,
                 timers |-> monitor.timers + 1]
  /\ connection' = [nextHandle |-> connection.nextHandle + 1,
                    listeners |-> connection.listeners \cup
                                    {connection.nextHandle}]
  /\ lastReturn' = [loanId |-> "", outcome |-> "start"]
  /\ UNCHANGED <<config, proc, probe, store, binStore, programs, handlers, sweep, chainLoans,
                 crashes, crashMark>>

\* EventMonitor.start(): a no-op while running; otherwise it subscribes to
\* the program's logs, keeps the handle the client returns, and arms the
\* reconciliation interval.
MonitorStart ==
  /\ IF monitor.isRunning
     THEN /\ UNCHANGED <<monitor, connection>>
          /\ lastReturn' = [loanId |-> "", outcome |-> "start_running"]
     ELSE /\ connection.nextHandle <= MaxHandle
          /\ monitor' = [isRunning |-> TRUE,
                         subscriptionId |-> connection.nextHandle,
                         timers |-> monitor.timers + 1]
          /\ connection' = [nextHandle |-> connection.nextHandle + 1,
                            listeners |-> connection.listeners \cup
                                            {connection.nextHandle}]
          /\ lastReturn' = [loanId |-> "", outcome |-> "start"]
  /\ UNCHANGED <<config, proc, probe, store, binStore, programs, handlers, sweep, chainLoans,
                 crashes, crashMark>>

\* EventMonitor.stop() is called: isRunning is cleared; with a truthy
\* subscriptionId removeOnLogsListener is called, which takes the listener
\* off the client, and stop() is suspended at its await; otherwise stop()
\* returns at once. The interval is not cleared: its callback returns at
\* once while isRunning is false.
MonitorStop ==
  /\ monitor' = [monitor EXCEPT !.isRunning = FALSE]
  /\ IF Truthy(monitor.subscriptionId)
     THEN /\ proc.stopping < MaxStops
          /\ connection' = [connection EXCEPT
                              !.listeners = @ \ {monitor.subscriptionId}]
          /\ proc' = [proc EXCEPT !.stopping = @ + 1]
          /\ UNCHANGED lastReturn
     ELSE /\ lastReturn' = [loanId |-> "", outcome |-> "stop"]
          /\ UNCHANGED <<connection, proc>>
  /\ UNCHANGED <<config, probe, store, binStore, programs, handlers, sweep, chainLoans,
                 crashes, crashMark>>

\* EventMonitor.stop(): removeOnLogsListener resolves and stop() returns,
\* whatever start() has done to the monitor meanwhile.
MonitorStopReturn ==
  /\ proc.stopping > 0
  /\ proc' = [proc EXCEPT !.stopping = @ - 1]
  /\ lastReturn' = [loanId |-> "", outcome |-> "stop"]
  /\ UNCHANGED <<config, probe, store, binStore, programs, handlers, sweep, monitor,
                 connection, chainLoans, crashes, crashMark>>

\* An interval armed by startPolling fires while the monitor is running,
\* whether or not an earlier sweep is still under way: the new sweep lists
\* the deployed records, its checks are pending next to those of the sweeps
\* in flight.
SweepStart ==
  /\ monitor.isRunning
  /\ monitor.timers > 0
  /\ ActiveLoans # <<>>
  /\ Len(sweep) + Len(ActiveLoans) <= MaxChecks
  /\ sweep' = sweep \o ActiveLoans
  /\ UNCHANGED <<config, proc, probe, monitor, connection, chainLoans, store, binStore, programs,
                 handlers, crashes, crashMark, lastReturn>>

\* The loan account of l on the chain: when it started and how long it runs.
StartTs(l) == 10
Duration(l) == 5

\* The values Date.now() / 1000 takes when the sweep reads the clock.
Clock == {14, 15, 16}

\* An expiry test that lets the boundary second pass as not yet expired.
ExpiredAndActiveStrict(now, l) ==
  now > StartTs(l) + Duration(l) /\ chainLoans[l] = "active"

\* checkExpiredLoans' test on a fetched loan account.
ExpiredAndActive(now, l) ==
  now >= StartTs(l) + Duration(l) /\ chainLoans[l] = "active"

\* checkExpiredLoans, one turn of its loop: the loan account is fetched
\* (or the fetch throws, which is caught and logged), the clock is read,
\* and loanExpired is emitted for an expired active loan: handleLoanExpired
\* calls processRecovery.
CheckExpiredLoan(fetched, now) ==
  /\ sweep # <<>>
  /\ sweep' = Tail(sweep)
  /\ IF fetched /\ ExpiredAndActive(now, Head(sweep))
     THEN Start(Frame("pr_get", Head(sweep)))
     ELSE UNCHANGED handlers
  /\ UNCHANGED <<config, proc, probe, monitor, connection, chainLoans, store, binStore, programs,
                 crashes, crashMark, lastReturn>>

\* checkExpiredLoans: the loan account cannot be fetched, is not yet expired
\* or is not active: nothing is emitted.
SweepSkip ==
  /\ sweep # <<>>
  /\ \E fetched \in BOOLEAN, now \in Clock :
       /\ ~(fetched /\ ExpiredAndActive(now, Head(sweep)))
       /\ CheckExpiredLoan(fetched, now)

\* checkExpiredLoans: the loan is expired and active: loanExpired is
\* emitted.
SweepEmitExpired ==
  /\ sweep # <<>>
  /\ \E now \in Clock :
       /\ ExpiredAndActive(now, Head(sweep))
       /\ CheckExpiredLoan(TRUE, now)

\* The orchestrator's loanRequested listener is invoked with an event of
\* loan l: handleLoanRequested awaits getDeployment.
HandleLoanRequestedCall(l) ==
  /\ probe.op = "input"
  /\ probe' = [probe EXCEPT !.op = "handleLoanRequested", !.loanId = l]
  /\ Start(Frame("lr_get", l))
  /\ UNCHANGED <<config, proc, store, binStore, programs, sweep, monitor,
                 connection, chainLoans, crashes, crashMark, lastReturn>>

\* ------------------------------------------------- the binary manager
\* Lengths and leading bytes of the payloads validateBinary is called with.
ProbeLengths ==
  0..(4 + ProbeMargin) \cup
    (MaxBinarySize - ProbeMargin)..(MaxBinarySize + ProbeMargin)

ProbeHeads(length) ==
  [1..(IF length < 4 THEN length ELSE 4) -> {0, 69, 70, 76, 127}]

\* binaryManager.validateBinary(binaryData) is called and returns.
ValidateBinaryCall ==
  LET validation == ValidateBuffer(probe.length, probe.head) IN
  /\ probe.op = "input"
  /\ probe' = [probe EXCEPT !.op = "validateBinary",
                            !.valid = validation.valid,
                            !.reason = validation.reason]
  /\ UNCHANGED <<config, proc, store, binStore, programs, handlers, sweep,
                 monitor, connection, chainLoans, crashes, crashMark, lastReturn>>

\* The loanIds storeBinary and getBinary are called with directly.
ProbeLoans == {"4", "42"}

\* binaryManager.storeBinary(l, b) is called and returns the hash.
StoreBinaryCall(l, b) ==
  LET hash == Sha256Hex(b) IN
  /\ binStore' = WriteFile(binStore, FilePath(l, hash), b)
  /\ probe' = [NoProbe EXCEPT !.op = "storeBinary", !.loanId = l, !.data = b,
                              !.hash = hash,
                              !.stored = probe.stored \cup {<<l, b>>}]
  /\ UNCHANGED <<config, proc, store, programs, handlers, sweep, monitor,
                 connection, chainLoans, crashes, crashMark, lastReturn>>

\* binaryManager.getBinary(l, hash) is called and returns the file's bytes
\* or throws.
GetBinaryCall(l, hash) ==
  LET filePath == FilePath(l, hash) IN
  /\ probe' =
       IF FileExists(binStore, filePath)
       THEN [NoProbe EXCEPT !.op = "getBinary", !.loanId = l, !.hash = hash,
                            !.out = ReadFile(binStore, filePath),
                            !.stored = probe.stored]
       ELSE [NoProbe EXCEPT !.op = "getBinary", !.loanId = l, !.hash = hash,
                            !.error = ErrNoEntry, !.stored = probe.stored]
  /\ UNCHANGED <<config, proc, store, binStore, programs, handlers, sweep,
                 monitor, connection, chainLoans, crashes, crashMark, lastReturn>>

\* ---------------------------------------------------------- the shutdown
\* SIGINT or SIGTERM arrives after main has started the orchestrator and
\* registered `shutdown`: shutdown calls orchestrator.stop(), which calls
\* eventMonitor.stop(), and waits for it; eventMonitor.stop() returns at
\* once when subscriptionId is falsy and is suspended at
\* removeOnLogsListener otherwise.
Shutdown ==
  /\ ~proc.exited
  /\ monitor.subscriptionId # Undefined
  /\ proc.stopping + proc.closing < MaxSignals
  /\ monitor' = [monitor EXCEPT !.isRunning = FALSE]
  /\ connection' =
       IF Truthy(monitor.subscriptionId)
       THEN [connection EXCEPT !.listeners = @ \ {monitor.subscriptionId}]
       ELSE connection
  /\ lastReturn' = IF Truthy(monitor.subscriptionId) THEN lastReturn
                   ELSE [loanId |-> "", outcome |-> "stop"]
  /\ proc' = [proc EXCEPT !.stopping = @ + 1]
  /\ UNCHANGED <<config, probe, store, binStore, programs, handlers, sweep,
                 chainLoans, crashes, crashMark>>

\* shutdown: removeOnLogsListener has resolved (when it was called),
\* eventMonitor.stop() and orchestrator.stop() return, and
\* stateManager.close() is called.
ShutdownClose ==
  /\ ~proc.exited
  /\ proc.stopping > 0
  /\ proc' = [proc EXCEPT !.stopping = @ - 1, !.closing = @ + 1,
                          !.db = IF @ = "open" THEN "closing" ELSE @]
  /\ lastReturn' = IF Truthy(monitor.subscriptionId)
                   THEN [loanId |-> "", outcome |-> "stop"]
                   ELSE lastReturn
  /\ UNCHANGED <<config, probe, store, binStore, programs, handlers, sweep,
                 monitor, connection, chainLoans, crashes, crashMark>>

\* shutdown: close() has resolved, process.exit(0): every handler, sweep and
\* shutdown call still in progress ends with the process.
ShutdownExit ==
  /\ ~proc.exited
  /\ proc.closing > 0
  /\ proc' = [db |-> "closed", stopping |-> 0, closing |-> 0, exited |-> TRUE]
  /\ handlers' = EmptyBag
  /\ sweep' = <<>>
  /\ connection' = [connection EXCEPT !.listeners = {}]
  /\ UNCHANGED <<config, probe, store, binStore, programs, monitor, chainLoans,
                 crashes, crashMark, lastReturn>>

\* A store operation was refused outside every try block: the promise of
\* the async listener that was handling the event rejects, nothing handles
\* the rejection, and Node ends the process before the event loop takes up
\* anything else.
UnhandledRejection ==
  /\ \E hr \in InFlight :
       /\ hr.pc = "unhandledRejection"
       /\ lastReturn' = [loanId |-> hr.loanId, outcome |-> "unhandledRejection"]
  /\ proc' = [db |-> "closed", stopping |-> 0, closing |-> 0, exited |-> TRUE]
  /\ handlers' = EmptyBag
  /\ sweep' = <<>>
  /\ connection' = [connection EXCEPT !.listeners = {}]
  /\ UNCHANGED <<config, probe, store, binStore, programs, monitor, chainLoans,
                 crashes, crashMark>>

\* ------------------------------------------------------------- the crash
\* The process dies and is started again on the same LevelDB and binary
\* directory: every handler and the sweep in progress are gone, the chain
\* keeps what landed; the new process has a new monitor and a new chain
\* client, and subscribes when its start() runs.
Crash ==
  /\ handlers' = EmptyBag
  /\ sweep' = <<>>
  /\ monitor' = NewMonitor
  /\ connection' = NewConnection(0)
  /\ crashes < MaxCrashes
  /\ crashes' = crashes + 1
  /\ crashMark' = Len(programs)
  /\ UNCHANGED <<config, proc, probe, chainLoans, store, binStore, programs, lastReturn>>

\* ------------------------------------------------------ specifications
HandlerStep(hr) ==
  \/ EmitLoanRequested(hr)
  \/ EmitLoanRecovered(hr)
  \/ LogsDecodeFails(hr)
  \/ LoanRequestedGet(hr)
  \/ LoanRequestedSavePending(hr)
  \/ DeploymentSaveDeploying(hr)
  \/ DeploymentFetchFails(hr)
  \/ \E b \in Binaries : DeploymentFetch(hr, b)
  \/ DeploymentStore(hr)
  \/ DeploymentDeployFails(hr)
  \/ DeploymentDeploy(hr)
  \/ DeploymentSetDeployedFails(hr)
  \/ DeploymentSetDeployed(hr)
  \/ DeploymentSaveDeployed(hr)
  \/ DeploymentSaveFailed(hr)
  \/ DeploymentBackoff(hr)
  \/ RecoveryGet(hr)
  \/ RecoverySaveRecovering(hr)
  \/ RecoveryCloseFails(hr)
  \/ RecoveryClose(hr)
  \/ RecoveryCloseBalanceFails(hr)
  \/ RecoveryCloseBalance(hr)
  \/ RecoveryReturnFails(hr)
  \/ RecoveryReturn(hr)
  \/ RecoverySaveRecovered(hr)
  \/ RecoverySaveFailed(hr)

\* Handlers overlap: an event can arrive while others are being handled.
Next ==
  \/ ~monitor.isRunning /\ MonitorStart
  \/ \E l \in Loans : ChainLoanRequested(l)
  \/ \E l \in Loans : ChainLoanRecovered(l)
  \/ \E hr \in InFlight : HandlerStep(hr)
  \/ \E l \in Loans : LogsLoanRequested(l)
  \/ \E l \in Loans : LogsLoanRecovered(l)
  \/ SweepStart
  \/ SweepEmitExpired
  \/ SweepSkip

\* Overlapping handlers are explored for the smaller retry budgets.
InitOverlap == Init /\ config.maxRetries <= MaxRetriesOverlap

Spec == InitOverlap /\ [][Next]_vars

\* The same, and the process can crash and restart at any moment.
NextCrash ==
  \/ ~monitor.isRunning /\ MonitorStart
  \/ \E l \in Loans : ChainLoanRequested(l)
  \/ \E l \in Loans : ChainLoanRecovered(l)
  \/ \E hr \in InFlight : HandlerStep(hr)
  \/ \E l \in Loans : LogsLoanRequested(l)
  \/ \E l \in Loans : LogsLoanRecovered(l)
  \/ SweepStart
  \/ SweepEmitExpired
  \/ SweepSkip
  \/ Crash

SpecCrash == InitOverlap /\ [][NextCrash]_vars

\* The event loop resumes every handler whose await has settled, at
\* whichever await it is suspended.
HandlersResumed ==
  \A pc \in StorePcs \cup {"mon_requested", "mon_recovered", "pd_fetch",
                         "pd_store", "pd_deploy", "pd_setDeployed",
                         "pdr_backoff", "pr_close", "pr_balance",
                         "pr_return"} :
    WF_vars(\E hr \in InFlight : hr.pc = pc /\ HandlerStep(hr))

\* The same, with the scheduling the event loop gives: a handler whose await
\* has resolved is resumed, the log of a requested loan is delivered again
\* and again and eventually decoded and emitted, the reconciliation timer
\* keeps firing. Nothing makes a deploy or close call succeed.
SpecCrashLive ==
  /\ InitOverlap
  /\ [][NextCrash]_vars
  /\ WF_vars(~monitor.isRunning /\ MonitorStart)
  /\ HandlersResumed
  /\ SF_vars(\E l \in Loans : LogsLoanRequested(l))
  /\ SF_vars(\E hr \in InFlight : EmitLoanRequested(hr))
  /\ WF_vars(SweepStart)
  /\ WF_vars(SweepSkip \/ SweepEmitExpired)

\* The scheduling of the event loop when the log subscription may drop a
\* notification: handlers are resumed and the reconciliation timer keeps
\* firing, but nothing makes an emitted log reach the listener.
SpecDropped ==
  /\ InitOverlap
  /\ [][NextCrash]_vars
  /\ WF_vars(~monitor.isRunning /\ MonitorStart)
  /\ HandlersResumed
  /\ WF_vars(SweepStart)
  /\ WF_vars(SweepSkip \/ SweepEmitExpired)

\* What an earlier run of the service left when it deployed loan l with
\* binary b as the chain's first program: the record, the stored file and
\* the program.
DeployedRecord(l, b) ==
  MarkDeployed(
    WithDeployResult(
      WithBinaryHash(
        MarkDeploying(NewDeployment(l, Borrower(l), Principal(l))),
        Sha256Hex(b)),
      ProgramKey(1), BufferKey(1), DeploySig(1)),
    SetSig(1))

\* The service is started: on an empty store and a chain without loans, or
\* on the store, binary directory and chain an earlier run left with
\* loan "42" deployed. The chain client has handed out any number of
\* subscription handles before the monitor subscribes.
InitMonitor ==
  /\ config \in [maxRetries : 0..MaxRetriesMonitor, adminWallet : BOOLEAN]
  /\ \/ /\ store = [l \in Loans |-> NotFound(l)]
        /\ binStore = {}
        /\ programs = <<>>
        /\ chainLoans = [l \in Loans |-> "none"]
     \/ /\ store = [l \in Loans |-> DeployedRecord(l, ElfMagic)]
        /\ binStore = WriteFile({}, FilePath("42", Sha256Hex(ElfMagic)), ElfMagic)
        /\ programs =
             << [loanId |-> "42", binary |-> ElfMagic, closed |-> FALSE,
                 returned |-> FALSE, returnedAmount |-> Null,
                 upgradeAuthority |->
                   DeployIx(ProgramKey(1), BufferKey(1),
                            Len(ElfMagic)).keys[4].pubkey] >>
        /\ chainLoans = [l \in Loans |-> "active"]
  /\ handlers = EmptyBag
  /\ sweep = <<>>
  /\ monitor = NewMonitor
  /\ \E first \in 0..MaxHandle : connection = NewConnection(first)
  /\ proc = NewProcess
  /\ probe = NoProbe
  /\ crashes = 0
  /\ crashMark = 0
  /\ lastReturn = [loanId |-> "", outcome |-> "none"]

\* The same start with the chain client's first handle.
InitRestarted == InitMonitor /\ connection = NewConnection(0)

\* The scheduling under which an expiry is acted on: handlers are resumed, a
\* restarted process starts its monitor, the reconciliation timer keeps
\* firing, also at moments when the event loop takes up a listener, and for
\* a loan that stays expired and active a turn of the sweep eventually
\* fetches the account and reads a clock past the expiry.
SpecExpiry ==
  /\ InitRestarted
  /\ [][NextCrash]_vars
  /\ WF_vars(~monitor.isRunning /\ MonitorStart)
  /\ HandlersResumed
  /\ SF_vars(BagCardinality(handlers) < MaxHandlers /\ SweepStart)
  /\ WF_vars(SweepSkip \/ SweepEmitExpired)
  /\ SF_vars(SweepEmitExpired)

NextMonitor ==
  \/ MonitorStart
  \/ MonitorStop
  \/ MonitorStopReturn
  \/ \E l \in Loans : ChainLoanRequested(l)
  \/ \E l \in Loans : ChainLoanRecovered(l)
  \/ \E hr \in InFlight : HandlerStep(hr)
  \/ \E l \in Loans : LogsLoanRequested(l)
  \/ \E l \in Loans : LogsLoanRecovered(l)
  \/ SweepStart
  \/ SweepEmitExpired
  \/ SweepSkip

SpecMonitor == InitMonitor /\ [][NextMonitor]_vars

\* The service from main's start to its exit on a termination signal:
\* events are handled until the process exits. An un-handled rejection ends
\* the process before any other callback of the process runs.
NextShutdown ==
  \/ monitor.subscriptionId = Undefined /\ MonitorStart
  \/ \E l \in Loans : ChainLoanRequested(l)
  \/ \E l \in Loans : ChainLoanRecovered(l)
  \/ \E hr \in InFlight : ~Rejecting /\ HandlerStep(hr)
  \/ \E l \in Loans : ~Rejecting /\ LogsLoanRequested(l)
  \/ \E l \in Loans : ~Rejecting /\ LogsLoanRecovered(l)
  \/ SweepStart
  \/ ~Rejecting /\ SweepEmitExpired
  \/ ~Rejecting /\ SweepSkip
  \/ ~Rejecting /\ Shutdown
  \/ ~Rejecting /\ ShutdownClose
  \/ ~Rejecting /\ ShutdownExit
  \/ UnhandledRejection

SpecShutdown == InitMonitor /\ [][NextShutdown]_vars

\* handleLoanRequested alone: the orchestrator's loanRequested listener is
\* invoked once, for every retry budget, and runs to its end.
InitRetries ==
  /\ config \in [maxRetries : 0..MaxRetriesCfg, adminWallet : BOOLEAN]
  /\ store = [l \in Loans |-> NotFound(l)]
  /\ binStore = {}
  /\ programs = <<>>
  /\ handlers = EmptyBag
  /\ sweep = <<>>
  /\ monitor = NewMonitor
  /\ connection = NewConnection(0)
  /\ chainLoans = [l \in Loans |-> "active"]
  /\ proc = NewProcess
  /\ probe = [NoProbe EXCEPT !.op = "input"]
  /\ crashes = 0
  /\ crashMark = 0
  /\ lastReturn = [loanId |-> "", outcome |-> "none"]

NextRetries ==
  \/ \E l \in Loans : HandleLoanRequestedCall(l)
  \/ \E hr \in InFlight : HandlerStep(hr)

SpecRetries == InitRetries /\ [][NextRetries]_vars

\* validateBinary alone, on every payload of ProbeLengths and ProbeHeads.
InitValidate ==
  /\ config = [maxRetries |-> 0, adminWallet |-> FALSE]
  /\ store = [l \in Loans |-> NotFound(l)]
  /\ binStore = {}
  /\ programs = <<>>
  /\ handlers = EmptyBag
  /\ sweep = <<>>
  /\ monitor = NewMonitor
  /\ connection = NewConnection(0)
  /\ chainLoans = [l \in Loans |-> "none"]
  /\ proc = NewProcess
  /\ \E length \in ProbeLengths : \E head \in ProbeHeads(length) :
       probe = [NoProbe EXCEPT !.op = "input", !.length = length, !.head = head]
  /\ crashes = 0
  /\ crashMark = 0
  /\ lastReturn = [loanId |-> "", outcome |-> "none"]

SpecValidate == InitValidate /\ [][ValidateBinaryCall]_vars

\* The payloads createWriteBufferInstructions is called with directly:
\* lengths around every multiple of the chunk size up to MaxChunks chunks,
\* bytes that differ from position to position.
ChunkProbeLengths ==
  UNION { {n \in (k * ChunkSize - ProbeMargin)..(k * ChunkSize + ProbeMargin) :
             n >= 0} : k \in 0..MaxChunks }

ChunkProbeData(length, seed) == [i \in 1..length |-> (i * seed + 7) % 256]

\* createWriteBufferInstructions is called with the payload.
CreateWriteBufferInstructionsCall ==
  /\ probe.op = "input"
  /\ probe' = [probe EXCEPT
                 !.op = "createWriteBufferInstructions",
                 !.out = CreateWriteBufferInstructions(BufferKey(1),
                                                       DeployerWalletKey,
                                                       probe.data)]
  /\ UNCHANGED <<config, proc, store, binStore, programs, handlers, sweep,
                 monitor, connection, chainLoans, crashes, crashMark, lastReturn>>

\* createWriteBufferInstructions alone, on each payload.
InitChunks ==
  /\ config = [maxRetries |-> 0, adminWallet |-> FALSE]
  /\ store = [l \in Loans |-> NotFound(l)]
  /\ binStore = {}
  /\ programs = <<>>
  /\ handlers = EmptyBag
  /\ sweep = <<>>
  /\ monitor = NewMonitor
  /\ connection = NewConnection(0)
  /\ chainLoans = [l \in Loans |-> "none"]
  /\ proc = NewProcess
  /\ \E length \in ChunkProbeLengths : \E seed \in 1..ProbeSeeds :
       probe = [NoProbe EXCEPT !.op = "input", !.length = length,
                               !.data = ChunkProbeData(length, seed)]
  /\ crashes = 0
  /\ crashMark = 0
  /\ lastReturn = [loanId |-> "", outcome |-> "none"]

SpecChunks == InitChunks /\ [][CreateWriteBufferInstructionsCall]_vars

\* deployProgram is called with loan l and the payload: it awaits getBalance.
DeployProgramCall(l, binaryData) ==
  /\ Len(probe.calls) < MaxInvocations
  /\ probe' = [probe EXCEPT
                 !.op = "deployProgram",
                 !.calls = Append(@, [loanId |-> l, data |-> binaryData,
                                      pc |-> "getBalance",
                                      bufferAccount |-> Null, programId |-> Null,
                                      instructions |-> <<>>, signers |-> <<>>,
                                      error |-> NoError])]
  /\ UNCHANGED <<config, proc, store, binStore, programs, handlers, sweep,
                 monitor, connection, chainLoans, crashes, crashMark, lastReturn>>

\* An invocation that takes up the keypairs of the invocation before it
\* when that one was for the same loan.
DeployProgramGetBalanceCached(i, resolved) ==
  LET call == probe.calls[i]
      cached == i > 1 /\ probe.calls[i - 1].loanId = call.loanId
                      /\ probe.calls[i - 1].bufferAccount # Null IN
  /\ call.pc = "getBalance"
  /\ probe' =
       IF ~resolved
       THEN [probe EXCEPT !.calls[i].pc = "thrown", !.calls[i].error = ErrDeploy]
       ELSE IF cached
       THEN [probe EXCEPT
               !.calls[i].pc = "getMinimumBalanceForRentExemption",
               !.calls[i].bufferAccount = probe.calls[i - 1].bufferAccount,
               !.calls[i].programId = probe.calls[i - 1].programId]
       ELSE [probe EXCEPT
               !.keypairs = @ + 2,
               !.calls[i].pc = "getMinimumBalanceForRentExemption",
               !.calls[i].bufferAccount = GenerateKeypair(probe.keypairs),
               !.calls[i].programId = GenerateKeypair(probe.keypairs + 1)]
  /\ UNCHANGED <<config, proc, store, binStore, programs, handlers, sweep,
                 monitor, connection, chainLoans, crashes, crashMark, lastReturn>>

\* deployProgram, invocation i: getBalance settles. When it resolves the two
\* keypairs are generated and getMinimumBalanceForRentExemption is awaited;
\* when it rejects the invocation throws.
DeployProgramGetBalance(i, resolved) ==
  LET call == probe.calls[i] IN
  /\ call.pc = "getBalance"
  /\ probe' =
       IF ~resolved
       THEN [probe EXCEPT !.calls[i].pc = "thrown", !.calls[i].error = ErrDeploy]
       ELSE [probe EXCEPT
               !.keypairs = @ + 2,
               !.calls[i].pc = "getMinimumBalanceForRentExemption",
               !.calls[i].bufferAccount = GenerateKeypair(probe.keypairs),
               !.calls[i].programId = GenerateKeypair(probe.keypairs + 1)]
  /\ UNCHANGED <<config, proc, store, binStore, programs, handlers, sweep,
                 monitor, connection, chainLoans, crashes, crashMark, lastReturn>>

\* deployProgram, invocation i: getMinimumBalanceForRentExemption settles.
\* When it resolves the transaction is built and sendAndConfirmTransaction
\* is awaited; when it rejects the invocation throws, its keypairs unused.
DeployProgramRentExemption(i, resolved) ==
  LET call == probe.calls[i]
      built == DeployTransaction(call.bufferAccount, call.programId, call.data) IN
  /\ call.pc = "getMinimumBalanceForRentExemption"
  /\ probe' =
       IF ~resolved
       THEN [probe EXCEPT !.calls[i].pc = "thrown", !.calls[i].error = ErrDeploy]
       ELSE [probe EXCEPT !.calls[i].pc = "sendAndConfirmTransaction",
                          !.calls[i].instructions = built.instructions,
                          !.calls[i].signers = built.signers]
  /\ UNCHANGED <<config, proc, store, binStore, programs, handlers, sweep,
                 monitor, connection, chainLoans, crashes, crashMark, lastReturn>>

\* deployProgram, invocation i: sendAndConfirmTransaction settles; the
\* invocation returns its keys or throws.
DeployProgramSend(i, confirmed) ==
  LET call == probe.calls[i] IN
  /\ call.pc = "sendAndConfirmTransaction"
  /\ probe' =
       IF confirmed
       THEN [probe EXCEPT !.calls[i].pc = "returned"]
       ELSE [probe EXCEPT !.calls[i].pc = "thrown", !.calls[i].error = ErrDeploy]
  /\ UNCHANGED <<config, proc, store, binStore, programs, handlers, sweep,
                 monitor, connection, chainLoans, crashes, crashMark, lastReturn>>

\* A component's methods called directly, on a service that handles no
\* event meanwhile.
InitProbe ==
  /\ config = [maxRetries |-> 0, adminWallet |-> FALSE]
  /\ store = [l \in Loans |-> NotFound(l)]
  /\ binStore = {}
  /\ programs = <<>>
  /\ handlers = EmptyBag
  /\ sweep = <<>>
  /\ monitor = NewMonitor
  /\ connection = NewConnection(0)
  /\ chainLoans = [l \in Loans |-> "none"]
  /\ proc = NewProcess
  /\ probe = NoProbe
  /\ crashes = 0
  /\ crashMark = 0
  /\ lastReturn = [loanId |-> "", outcome |-> "none"]

\* deployProgram alone: any number of invocations, which overlap.
NextDeployer ==
  \/ \E l \in ProbeLoans,
        binaryData \in { <<127, 69, 76, 70, 1>>, ChunkProbeData(ChunkSize + 1, 1) } :
       DeployProgramCall(l, binaryData)
  \/ \E i \in DOMAIN probe.calls, resolved \in BOOLEAN :
       DeployProgramGetBalance(i, resolved)
  \/ \E i \in DOMAIN probe.calls, resolved \in BOOLEAN :
       DeployProgramRentExemption(i, resolved)
  \/ \E i \in DOMAIN probe.calls, confirmed \in BOOLEAN :
       DeployProgramSend(i, confirmed)

SpecDeployer == InitProbe /\ [][NextDeployer]_vars

\* closeProgram is called for the k-th program of the probe: it awaits
\* getAccountInfo.
CloseProgramCall(k) ==
  /\ Len(probe.closes) < MaxCloses
  /\ probe' = [probe EXCEPT
                 !.op = "closeProgram",
                 !.closes = Append(@, [program |-> k, pc |-> "getAccountInfo",
                                       closeIx |-> Null, signers |-> <<>>,
                                       before |-> Null, after |-> Null,
                                       reclaimedSol |-> Null,
                                       amountLamports |-> Null,
                                       error |-> NoError])]
  /\ UNCHANGED <<config, proc, store, binStore, programs, handlers, sweep,
                 monitor, connection, chainLoans, crashes, crashMark, lastReturn>>

\* closeProgram, call i: getAccountInfo settles. With the program account
\* the close instruction is built from the data address the account holds
\* and sendAndConfirmTransaction is awaited; with null, or when
\* getAccountInfo rejects, the call throws.
CloseProgramAccountInfo(i, outcome) ==
  LET call == probe.closes[i]
      programDataAddress == <<"programData", call.program>>
      closeIx == CreateCloseAccountInstruction(programDataAddress, "deployerPda",
                                               AuthorityPda,
                                               ProgramKey(call.program)) IN
  /\ call.pc = "getAccountInfo"
  /\ probe' =
       CASE outcome = "null" ->
              [probe EXCEPT !.closes[i].pc = "thrown",
                            !.closes[i].error = ErrAccountNotFound]
         [] outcome = "rejects" ->
              [probe EXCEPT !.closes[i].pc = "thrown",
                            !.closes[i].error = ErrClose]
         [] OTHER ->
              [probe EXCEPT !.closes[i].pc = "sendAndConfirmTransaction",
                            !.closes[i].closeIx = closeIx,
                            !.closes[i].signers = <<"deployerWallet.payer">>]
  /\ UNCHANGED <<config, proc, store, binStore, programs, handlers, sweep,
                 monitor, connection, chainLoans, crashes, crashMark, lastReturn>>

\* closeProgram, call i: sendAndConfirmTransaction settles. A close that is
\* confirmed has moved what the data account holds (nothing, when an earlier
\* call closed it) to the recipient the instruction names, the deployer
\* PDA. Then getBalance is awaited. `before` and `after` keep the PDA's
\* balance around the close.
CloseProgramSend(i, confirmed) ==
  LET call == probe.closes[i]
      held == probe.programData[call.program]
      afterBalance == IF call.closeIx.keys[2].pubkey = "deployerPda"
                      THEN probe.deployerPda + held
                      ELSE probe.deployerPda IN
  /\ call.pc = "sendAndConfirmTransaction"
  /\ probe' =
       IF confirmed
       THEN [probe EXCEPT !.deployerPda = afterBalance,
                          !.programData[call.program] = 0,
                          !.closes[i].pc = "getBalance",
                          !.closes[i].before = probe.deployerPda,
                          !.closes[i].after = afterBalance]
       ELSE [probe EXCEPT !.closes[i].pc = "thrown",
                          !.closes[i].error = ErrClose]
  /\ UNCHANGED <<config, proc, store, binStore, programs, handlers, sweep,
                 monitor, connection, chainLoans, crashes, crashMark, lastReturn>>

\* closeProgram, call i: getBalance settles. The call returns the balance
\* the deployer PDA has now, in SOL, or throws with the program closed.
CloseProgramBalance(i, resolved) ==
  LET call == probe.closes[i] IN
  /\ call.pc = "getBalance"
  /\ probe' =
       IF resolved
       THEN [probe EXCEPT !.closes[i].pc = "returned",
                          !.closes[i].reclaimedSol = ToSol(probe.deployerPda)]
       ELSE [probe EXCEPT !.closes[i].pc = "thrown",
                          !.closes[i].error = ErrClose]
  /\ UNCHANGED <<config, proc, store, binStore, programs, handlers, sweep,
                 monitor, connection, chainLoans, crashes, crashMark, lastReturn>>

\* processRecovery passes the reclaimedSol closeProgram call i returned to
\* returnReclaimedSol, which sends return_reclaimed_sol with the amount in
\* lamports.
ReturnReclaimedSolCall(i) ==
  LET call == probe.closes[i] IN
  /\ call.pc = "returned"
  /\ probe' = [probe EXCEPT
                 !.op = "returnReclaimedSol",
                 !.closes[i].pc = "returnReclaimedSol",
                 !.closes[i].amountLamports =
                    ToLamports(ReturnAmount(call.reclaimedSol))]
  /\ UNCHANGED <<config, proc, store, binStore, programs, handlers, sweep,
                 monitor, connection, chainLoans, crashes, crashMark, lastReturn>>

\* closeProgram and returnReclaimedSol as processRecovery calls them, for two
\* programs of any rent and a deployer PDA that holds any balance.
InitReclaim ==
  /\ config = [maxRetries |-> 0, adminWallet |-> FALSE]
  /\ store = [l \in Loans |-> NotFound(l)]
  /\ binStore = {}
  /\ programs = <<>>
  /\ handlers = EmptyBag
  /\ sweep = <<>>
  /\ monitor = NewMonitor
  /\ connection = NewConnection(0)
  /\ chainLoans = [l \in Loans |-> "none"]
  /\ proc = NewProcess
  /\ \E held \in 0..MaxHeld, rent1 \in 1..MaxRent, rent2 \in 1..MaxRent :
       probe = [NoProbe EXCEPT !.op = "input", !.loanId = "42",
                               !.deployerPda = held,
                               !.programData = <<rent1, rent2>>]
  /\ crashes = 0
  /\ crashMark = 0
  /\ lastReturn = [loanId |-> "", outcome |-> "none"]

NextReclaim ==
  \/ \E k \in DOMAIN probe.programData : CloseProgramCall(k)
  \/ \E i \in DOMAIN probe.closes, outcome \in {"account", "null", "rejects"} :
       CloseProgramAccountInfo(i, outcome)
  \/ \E i \in DOMAIN probe.closes, confirmed \in BOOLEAN :
       CloseProgramSend(i, confirmed)
  \/ \E i \in DOMAIN probe.closes, resolved \in BOOLEAN :
       CloseProgramBalance(i, resolved)
  \/ \E i \in DOMAIN probe.closes : ReturnReclaimedSolCall(i)

SpecReclaim == InitReclaim /\ [][NextReclaim]_vars

\* The log lines of a notification: one that includes 'Program log:
\* LoanRequested', one that includes 'Program log: LoanRecovered', any other.
LogBatches ==
  UNION { [1..n -> {"LoanRequested", "LoanRecovered", "other"}] :
          n \in 0..MaxLogLines }

\* What decoding the notification's transaction comes to: getParsedTransaction
\* throws, resolves to null, resolves to a transaction without meta,
\* parseLogs throws, or parseLogs gives the events named.
DecodeOutcomes ==
  { [kind |-> k, events |-> <<>>] :
      k \in {"fetch throws", "null", "no meta", "parse throws"} }
  \cup { [kind |-> "events", events |-> e] :
           e \in { <<>>, <<"LoanRequested">>, <<"LoanRecovered">>,
                    <<"Other">>, <<"LoanRecovered", "LoanRequested">> } }

\* A handler without its try/catch blocks: a failed fetch or parse is
\* thrown to processLogs.
HandleSignatureUncaught(name, outcome) ==
  [emits |-> IF outcome.kind = "events"
             THEN SelectSeq(outcome.events, LAMBDA e : e = name)
             ELSE <<>>,
   thrown |-> outcome.kind \in {"fetch throws", "parse throws"}]

\* EventMonitor.handleLoanRequested / handleLoanRecovered on a signature,
\* from the moment getParsedTransaction settles: the events of the handler's
\* name are emitted in order; a missing transaction or meta returns. The
\* fetch is inside the handler's outer try block and parseLogs inside its
\* inner one, so what either throws is caught and logged.
HandleSignature(name, outcome) ==
  [emits |-> IF outcome.kind = "events"
             THEN SelectSeq(outcome.events, LAMBDA e : e = name)
             ELSE <<>>,
   thrown |-> FALSE]

\* processLogs' loop from line `from` of the batch on: the lines without a
\* marker are passed over; the index of the first line with one, whose
\* handler is called, or 0 when the loop ends.
NextMarked(batch, from) ==
  LET marked == {j \in from..Len(batch) : batch[j] # "other"} IN
  IF marked = {} THEN 0 ELSE CHOOSE j \in marked : \A k \in marked : j <= k

\* The subscription delivers a notification: the callback, which nothing
\* awaits, calls processLogs, which runs up to the getParsedTransaction of
\* its first marked line, whatever earlier notifications are still being
\* processed.
OnLogs(batch) ==
  /\ Len(probe.runs) < MaxBatches
  /\ probe' = [probe EXCEPT
                 !.op = "processLogs",
                 !.runs = Append(@, [batch |-> batch,
                                     at |-> NextMarked(batch, 1)])]
  /\ UNCHANGED <<config, proc, store, binStore, programs, handlers, sweep,
                 monitor, connection, chainLoans, crashes, crashMark, lastReturn>>

\* processLogs of notification i: the getParsedTransaction of the marked
\* line it is at settles, the handler decodes with `outcome` and returns,
\* and the loop goes on to the next marked line. An error thrown by the
\* handler ends the loop and reaches the subscription callback.
ProcessLogLine(i, outcome) ==
  LET run == probe.runs[i]
      line == run.batch[run.at]
      result == HandleSignature(line, outcome) IN
  /\ run.at > 0
  /\ probe' = [probe EXCEPT
                 !.op = "processLogs",
                 !.runs[i].at = IF result.thrown THEN 0
                                ELSE NextMarked(run.batch, run.at + 1),
                 !.lines = Append(@, [run |-> i, at |-> run.at, line |-> line,
                                      outcome |-> outcome]),
                 !.emitted = @ \o [e \in 1..Len(result.emits) |->
                                     [name |-> result.emits[e], loanId |-> "42",
                                      line |-> Len(probe.lines) + 1]],
                 !.escaped = @ \/ result.thrown]
  /\ UNCHANGED <<config, proc, store, binStore, programs, handlers, sweep,
                 monitor, connection, chainLoans, crashes, crashMark, lastReturn>>

\* The push path alone: notifications arrive at any moment.
NextLogs ==
  \/ \E batch \in LogBatches : OnLogs(batch)
  \/ \E i \in DOMAIN probe.runs, outcome \in DecodeOutcomes :
       ProcessLogLine(i, outcome)

SpecLogs == InitProbe /\ [][NextLogs]_vars

\* storeBinary and getBinary alone, called in any order.
NextBinary ==
  \/ \E l \in ProbeLoans, b \in Binaries : StoreBinaryCall(l, b)
  \/ \E l \in ProbeLoans, hash \in {Sha256Hex(b) : b \in Binaries} \cup {Null} : GetBinaryCall(l, hash)

SpecBinary == InitProbe /\ [][NextBinary]_vars

\* ----------------------------------------------------------------- claims
\* The handlers of loan l whose current attempt has called deployProgram.
DeployCallers(l) ==
  {hr \in InFlight :
     hr.loanId = l /\ hr.pc \in {"pd_deploy", "pd_setDeployed", "pd_saveDeployed"}}

\* The handlers of loan l that have called closeProgram.
CloseCallers(l) ==
  {hr \in InFlight :
     hr.loanId = l /\ hr.pc \in {"pr_close", "pr_balance", "pr_return", "pr_saveRecovered",
                                 "pr_saveFailed"}}

\* How many handlers in flight have a frame in S.
Count(S) == BagCardinality([hr \in S |-> CopiesIn(hr, handlers)])

\* The deploy transactions of loan l that landed.
Deploys(l) == {k \in 1..Len(programs) : programs[k].loanId = l}

\* C1: two loanRequested events for one loan, the second delivered while the
\* first is being handled, lead to one deployment attempt sequence: at most
\* one of the handlers calls deployProgram.
C1_SingleDeploymentSequence ==
  \A l \in Loans : Count(DeployCallers(l)) <= 1

\* C2: handleLoanRequested run alone on a record that exists and is not
\* failed is a no-op: it returns at once, and the store, the stored binaries
\* and the chain are unchanged.
C2_GuardedRequestIsNoOp ==
  [][\A hr \in InFlight :
       ( /\ hr.pc = "lr_get"
         /\ handlers = SetToBag({hr})
         /\ Exists(store[hr.loanId])
         /\ store[hr.loanId].status # "failed"
         /\ CopiesIn(hr, handlers') < CopiesIn(hr, handlers) )
       => /\ handlers' = EmptyBag
          /\ UNCHANGED <<store, binStore, programs>>]_vars

\* C2's case: a loanRequested handler has returned at the guard on a record
\* left as deploying, with nothing else in flight.
C2_Witness ==
  /\ lastReturn.outcome = "lr_guard"
  /\ AllIdle
  /\ store[lastReturn.loanId].status = "deploying"

\* C3: handled one handler at a time, at most one deploy transaction lands
\* for a loan, whatever the chain calls answer and however often the loan is
\* retried or requested again.
C3_AtMostOneDeployPerLoan ==
  \A l \in Loans : Cardinality(Deploys(l)) <= 1

\* C4: whatever the interleaving of loanRecovered and loanExpired for a
\* deployed loan, at most one processRecovery passes the guard and calls
\* closeProgram.
C4_SingleRecovery ==
  \A l \in Loans : Count(CloseCallers(l)) <= 1

\* C5: after a crash and restart, no event causes a second deploy
\* transaction for a loan whose deploy transaction had landed before the
\* crash, nor a closeProgram call on a program that is already closed.
C5_CrashSafe ==
  crashes > 0 =>
    /\ \A k \in 1..Len(programs) : \A j \in 1..Len(programs) :
         (j <= crashMark /\ crashMark < k) => programs[j].loanId # programs[k].loanId
    /\ \A hr \in InFlight :
         hr.pc = "pr_close" => ~programs[ProgramIndex(hr.dep.programId)].closed

\* C6: a record left pending or deploying by a crash in the middle of its
\* deployment (the service being configured to attempt deployments)
\* eventually reaches deployed or failed once events are observed again.
C6_CrashResume ==
  \A l \in Loans :
    [](( /\ crashes > 0
         /\ AllIdle
         /\ config.maxRetries >= 1
         /\ store[l].status \in {"pending", "deploying"} )
       => <>(store[l].status \in {"deployed", "failed"}))

\* C7: a persisted record with status deployed has its programId,
\* bufferAccount and both deploy signatures set, names a program deployed for
\* its loan, and carries the hash of the bytes that program was deployed from.
C7_DeployedRecordComplete ==
  \A l \in Loans :
    store[l].status = "deployed" =>
      /\ store[l].programId # Null
      /\ store[l].bufferAccount # Null
      /\ store[l].deployTxSignature # Null
      /\ store[l].setDeployedTxSignature # Null
      /\ ProgramIndex(store[l].programId) \in Deploys(l)
      /\ store[l].binaryHash =
           Sha256Hex(programs[ProgramIndex(store[l].programId)].binary)

\* C7's case: a record is persisted as deployed after a retried attempt
\* that fetched the longer payload.
C7_Witness ==
  \E l \in Loans :
    /\ store[l].status = "deployed"
    /\ store[l].programId = ProgramKey(2)
    /\ programs[2].binary = <<127, 69, 76, 70, 1>>

\* A record that has been persisted as deployed: setDeployedTxSignature is
\* set in the same assignment as that status and never cleared in place.
WasDeployed(rec) == rec.setDeployedTxSignature # Null

\* C8: once a record has been persisted as deployed, its programId,
\* deployTxSignature and setDeployedTxSignature are the same in every later
\* persisted state.
C8_DeployFieldsImmutable ==
  [][\A l \in Loans :
       WasDeployed(store[l]) =>
         /\ store'[l].programId = store[l].programId
         /\ store'[l].deployTxSignature = store[l].deployTxSignature
         /\ store'[l].setDeployedTxSignature = store[l].setDeployedTxSignature]_vars

\* C9: a persisted record with status recovered has its recoveryTxSignature
\* set.
C9_RecoveredHasSignature ==
  \A l \in Loans :
    store[l].status = "recovered" => store[l].recoveryTxSignature # Null

\* C9's case: a record is persisted as recovered, its program closed and the
\* reclaimed balance returned.
C9_Witness ==
  \E l \in Loans :
    /\ store[l].status = "recovered"
    /\ programs[ProgramIndex(store[l].programId)].closed
    /\ programs[ProgramIndex(store[l].programId)].returned

\* C10: once a record is persisted as recovered, no event and no handler
\* still in flight changes it.
C10_RecoveredIsTerminal ==
  [][\A l \in Loans :
       store[l].status = "recovered" => store'[l] = store[l]]_vars

\* C11: whatever the interleaving of handlers, every change of a loan's
\* persisted status follows an edge of the state machine; in particular it
\* never goes back from deployed, recovering or recovered to pending or
\* deploying.
C11_StatusFollowsEdges ==
  [][LET edges ==
           { <<"absent", "pending">>, <<"pending", "deploying">>,
             <<"deploying", "deploying">>, <<"deploying", "deployed">>,
             <<"pending", "failed">>, <<"deploying", "failed">>,
             <<"deployed", "recovering">>, <<"recovering", "recovered">>,
             <<"recovering", "failed">>, <<"failed", "pending">> }
     IN \A l \in Loans :
          store'[l].status # store[l].status =>
            <<store[l].status, store'[l].status>> \in edges]_vars

\* C12: processRecovery on a loan with no record, or with a record whose
\* status is not deployed, is a no-op: it returns at the guard, the store,
\* the stored binaries and the chain are unchanged, no record is created.
C12_RecoveryGuardIsNoOp ==
  [][\A hr \in InFlight :
       ( /\ hr.pc = "pr_get"
         /\ store[hr.loanId].status # "deployed"
         /\ crashes' = crashes
         /\ CopiesIn(hr, handlers') < CopiesIn(hr, handlers) )
       => /\ handlers' = handlers (-) SetToBag({hr})
          /\ UNCHANGED <<store, binStore, programs>>]_vars

\* C12's case: processRecovery has returned at the guard on a record that
\* is already recovered.
C12_Witness ==
  /\ lastReturn.outcome = "pr_guard"
  /\ AllIdle
  /\ store[lastReturn.loanId].status = "recovered"

\* C13: a deployment that succeeds after failed attempts (in particular
\* after maxRetries - 1 of them) has slept once after each failed attempt,
\* the k-th time for retryDelayMs * 2^(k-1), and its record is persisted as
\* deployed with no further delay.
C13_RetryBackoff ==
  [][\A hr \in InFlight :
       hr.pc = "pd_saveDeployed" =>
         /\ hr.attempts <= config.maxRetries - 1
         /\ Len(hr.delays) = hr.attempts
         /\ \A k \in 1..Len(hr.delays) : hr.delays[k] = RetryDelayMs * 2^(k - 1)
         /\ ( crashes' = crashes /\ CopiesIn(hr, handlers') < CopiesIn(hr, handlers) )
            => /\ store'[hr.loanId].status = "deployed"
               /\ handlers' = handlers (-) SetToBag({hr})]_vars

\* C13's case: with maxRetries = 3 the attempt has failed twice and then
\* succeeded, after delays of 5000 and 10000 ms.
C13_Witness ==
  \E hr \in InFlight :
    /\ hr.pc = "pd_saveDeployed"
    /\ config.maxRetries = 3
    /\ hr.attempts = 2
    /\ hr.delays = <<5000, 10000>>

\* C14: a loanRequested handler whose retry loop ends without a successful
\* attempt has made exactly maxRetries attempts, has slept between them
\* only (maxRetries - 1 times, not after the last), and returns leaving the
\* record persisted as failed with a non-empty error.
C14_Exhaustion ==
  [][\A hr \in InFlight :
       ( /\ hr.pc \in {"lr_savePending", "pdr_saveFailed"}
         /\ crashes' = crashes
         /\ handlers' = handlers (-) SetToBag({hr})
         /\ handlers' # handlers )
       => /\ hr.attempts = config.maxRetries
          /\ Len(hr.delays) = config.maxRetries - 1
          /\ store'[hr.loanId].status = "failed"
          /\ store'[hr.loanId].error # NoError]_vars

\* C15: a loanRequested event handled while the record is persisted as
\* failed passes the guard and starts over: a fresh record is persisted as
\* pending, then as deploying, and the retry loop starts from zero attempts.
C15_FailedIsRetriggered ==
  [][\A hr \in InFlight :
       ( crashes' = crashes /\ CopiesIn(hr, handlers') < CopiesIn(hr, handlers) )
       => /\ ( hr.pc = "lr_get" /\ store[hr.loanId].status = "failed" )
             => \E fr \in BagToSet(handlers') :
                  /\ fr.pc = "lr_savePending"
                  /\ fr.dep = NewDeployment(hr.loanId, Borrower(hr.loanId),
                                            Principal(hr.loanId))
                  /\ fr.attempts = 0
                  /\ fr.delays = <<>>
          /\ ( hr.pc = "lr_savePending" /\ store[hr.loanId].status = "failed" )
             => /\ store'[hr.loanId].status = "pending"
                /\ config.maxRetries >= 1
                /\ \E fr \in BagToSet(handlers') :
                     fr.pc = "pd_saveDeploying" /\ fr.attempts = 0
          /\ ( hr.pc = "pd_saveDeploying" /\ hr.attempts = 0 )
             => store'[hr.loanId].status = "deploying"]_vars

\* C15's case: after a deployment that landed and a record that failed, a
\* new loanRequested has put a fresh record through pending to deploying
\* and its first attempt is under way.
C15_Witness ==
  \E hr \in InFlight :
    /\ hr.pc = "pd_fetch"
    /\ hr.attempts = 0
    /\ Len(programs) >= 1
    /\ store[hr.loanId].status = "deploying"
    /\ store[hr.loanId].programId = Null

\* C16: while the register-deployed-program instruction is in flight, the
\* programId, bufferAccount and deployTxSignature the deploy step returned
\* are already in the persisted record.
C16_DeployResultPersistedFirst ==
  \A hr \in InFlight :
    hr.pc = "pd_setDeployed" =>
      /\ store[hr.loanId].programId = hr.dep.programId
      /\ store[hr.loanId].bufferAccount = hr.dep.bufferAccount
      /\ store[hr.loanId].deployTxSignature = hr.dep.deployTxSignature

\* C17: a reconciliation sweep lists exactly the deployed records, each loanId
\* once; for each of them it emits loanExpired exactly once when the fetched
\* loan account has startTs + duration <= now and is active, and emits
\* nothing otherwise.
C17_ExpiryDetection ==
  [][/\ (Len(sweep') > Len(sweep)) =>
          LET listed == SubSeq(sweep', Len(sweep) + 1, Len(sweep')) IN
          /\ \A l \in Loans :
               (\E i \in 1..Len(listed) : listed[i] = l) <=>
                 store[l].status = "deployed"
          /\ \A i, j \in 1..Len(listed) : listed[i] = listed[j] => i = j
     /\ \A fetched \in BOOLEAN, now \in Clock :
          CheckExpiredLoan(fetched, now) =>
            LET l == Head(sweep) IN
            IF /\ fetched
               /\ StartTs(l) + Duration(l) <= now
               /\ chainLoans[l] = "active"
            THEN handlers' = handlers (+) SetToBag({Frame("pr_get", l)})
            ELSE handlers' = handlers]_vars

\* The sweep has emitted loanExpired for a deployed loan that is still active
\* on the chain: handleLoanExpired is about to read the record.
C17_Witness ==
  \E hr \in InFlight :
    /\ hr.pc = "pr_get"
    /\ chainLoans[hr.loanId] = "active"
    /\ store[hr.loanId].status = "deployed"
    /\ sweep = <<>>

\* C18: the periodic sweep is a backstop for dropped log notifications: a
\* loan requested on chain eventually has a DeploymentRecord, and a deployed
\* record whose loan was recovered on chain eventually leaves deployed, even
\* when the subscription never delivers the notification.
C18_SweepIsBackstop ==
  /\ \A l \in Loans : (chainLoans[l] # "none") ~> Exists(store[l])
  /\ \A l \in Loans :
       (chainLoans[l] = "recovered" /\ store[l].status = "deployed")
         ~> (store[l].status # "deployed")

\* C19: while the monitor is running and stays running (start() called
\* again, no stop() in between), no step registers a log listener or arms a
\* reconciliation timer.
C19_StartIdempotent ==
  [][(monitor.isRunning /\ monitor'.isRunning) =>
       /\ connection'.listeners = connection.listeners
       /\ connection'.nextHandle = connection.nextHandle
       /\ monitor'.timers = monitor.timers
       /\ monitor'.subscriptionId = monitor.subscriptionId]_vars

\* start() has returned at its isRunning guard: one listener, one timer.
C19_Witness ==
  /\ lastReturn.outcome = "start_running"
  /\ monitor.isRunning
  /\ Cardinality(connection.listeners) = 1
  /\ monitor.timers = 1

\* C20: once start() and then stop() have returned, the listener start()
\* registered is no longer on the chain client, whatever handle it was
\* given, and no reconciliation sweep begins while the monitor is stopped.
C20_StopTearsDown ==
  [][/\ ( /\ ~monitor.isRunning
          /\ monitor.subscriptionId # Undefined
          /\ proc.stopping = 0 ) =>
          monitor.subscriptionId \notin connection.listeners
     /\ ~monitor.isRunning => ~(Len(sweep') > Len(sweep))]_vars

\* C21: on shutdown the store is closed only after the monitor's stop() has
\* completed, and close() never overlaps stop(): with a subscription handle
\* stop() waits on, no stop() is in progress while a close() is.
C21_CloseNeverOverlapsStop ==
  (Truthy(monitor.subscriptionId) /\ proc.closing > 0) => proc.stopping = 0

\* C22: while the store is being closed or is closed, no orchestrator
\* handler is in progress.
C22_NoHandlerAtClose ==
  proc.db # "open" => AllIdle

\* C23: validateBinary returns valid exactly for a non-empty payload of at
\* most 104,857,600 bytes whose first four bytes are 7F 45 4C 46; otherwise
\* the reason is the first that applies of empty, header, size.
C23_ValidateBinary ==
  probe.op = "validateBinary" =>
    LET goodHeader == /\ probe.length >= 4
                      /\ probe.head[1] = 127 /\ probe.head[2] = 69
                      /\ probe.head[3] = 76 /\ probe.head[4] = 70 IN
    /\ probe.valid <=>
         (probe.length # 0 /\ goodHeader /\ probe.length <= 104857600)
    /\ probe.reason =
         IF probe.length = 0 THEN "Empty binary"
         ELSE IF ~goodHeader THEN "Invalid ELF header"
         ELSE IF probe.length > 104857600 THEN "Binary too large (>100MB)"
         ELSE ""

\* A payload of exactly 104,857,600 bytes with the ELF header was judged
\* valid.
C23_Witness ==
  /\ probe.op = "validateBinary"
  /\ probe.length = 104857600
  /\ probe.head = ElfMagic
  /\ probe.valid

\* C24: storeBinary returns the content hash and leaves exactly one file
\* for the (loanId, bytes) stored, however often it is stored; getBinary
\* with a loanId and the hash storeBinary returned for it gives back exactly
\* the bytes stored; getBinary for a (loanId, hash) never stored fails.
C24_ContentAddressing ==
  /\ probe.op = "storeBinary" =>
       /\ probe.hash = Sha256Hex(probe.data)
       /\ probe.error = NoError
       /\ Cardinality({f \in binStore :
                         f.path = FilePath(probe.loanId, probe.hash)}) = 1
  /\ Cardinality(binStore) = Cardinality(probe.stored)
  /\ probe.op = "getBinary" =>
       IF \E b \in Binaries :
            <<probe.loanId, b>> \in probe.stored /\ Sha256Hex(b) = probe.hash
       THEN /\ probe.error = NoError
            /\ \A b \in Binaries :
                 (<<probe.loanId, b>> \in probe.stored
                    /\ Sha256Hex(b) = probe.hash) => probe.out = b
       ELSE probe.error # NoError

\* getBinary returned the five bytes stored for loan 42 while a second
\* artifact is in the store.
C24_Witness ==
  /\ probe.op = "getBinary"
  /\ probe.loanId = "42"
  /\ probe.error = NoError
  /\ probe.out = <<127, 69, 76, 70, 1>>
  /\ Cardinality(binStore) >= 2

\* C25: every landed deploy transaction names the protocol's authority PDA,
\* and not the deployer service's wallet, as upgrade authority.
C25_UpgradeAuthorityIsPda ==
  \A k \in 1..Len(programs) :
    /\ programs[k].upgradeAuthority = AuthorityPda
    /\ programs[k].upgradeAuthority # DeployerWalletKey

\* Two deploys have landed for the same loan: a first attempt and a retry.
C25_Witness ==
  /\ Len(programs) = 2
  /\ programs[1].loanId = programs[2].loanId
  /\ \E hr \in InFlight : hr.attempts >= 1 /\ hr.pc = "pd_setDeployed"
  /\ crashes = 0

\* A handler frame the step has put in flight, and one it has taken out.
Entered(f) == CopiesIn(f, handlers') > CopiesIn(f, handlers)

Left(f) == CopiesIn(f, handlers') < CopiesIn(f, handlers)

\* C26: an attempt goes on to fetch the binary only by the step that
\* persists deploying, and reaches the store and deploy steps only from
\* there; a recovery goes on to the close transaction only by the step that
\* persists recovering; deployed and recovered are persisted only by a
\* handler whose chain calls have all succeeded.
C26_WriteAhead ==
  [][/\ \A f \in BagToSet(handlers') :
          /\ (f.pc = "pd_fetch" /\ Entered(f)) =>
               /\ store'[f.loanId].status = "deploying"
               /\ \E g \in InFlight : g.pc = "pd_saveDeploying" /\ Left(g)
          /\ (f.pc = "pd_store" /\ Entered(f)) =>
               \E g \in InFlight : g.pc = "pd_fetch" /\ Left(g)
          /\ (f.pc = "pd_deploy" /\ Entered(f)) =>
               \E g \in InFlight : g.pc = "pd_store" /\ Left(g)
          /\ (f.pc = "pr_close" /\ Entered(f)) =>
               /\ store'[f.loanId].status = "recovering"
               /\ \E g \in InFlight : g.pc = "pr_saveRecovering" /\ Left(g)
     /\ Len(programs') > Len(programs) =>
          \E g \in InFlight : g.pc = "pd_deploy" /\ Left(g)
     /\ \A l \in Loans :
          /\ (store'[l].status = "deployed" /\ store[l] # store'[l]) =>
               \E g \in InFlight :
                 /\ g.pc = "pd_saveDeployed" /\ Left(g)
                 /\ programs[ProgramIndex(g.dep.programId)].loanId = l
                 /\ g.dep.deployTxSignature # Null
                 /\ g.dep.setDeployedTxSignature # Null
          /\ (store'[l].status = "recovered" /\ store[l] # store'[l]) =>
               \E g \in InFlight :
                 /\ g.pc = "pr_saveRecovered" /\ Left(g)
                 /\ programs[ProgramIndex(g.dep.programId)].closed
                 /\ programs[ProgramIndex(g.dep.programId)].returned]_vars

\* The attempt of a loan requested again after a deploy that landed has
\* saved deploying again and its deploy transaction is being submitted.
C26_Witness ==
  \E hr \in InFlight :
    /\ hr.pc = "pd_deploy"
    /\ Len(programs) >= 1
    /\ store[hr.loanId].status = "deploying"
    /\ store[hr.loanId].error = NoError

\* C27: a record is persisted as recovered only by a recovery whose close
\* transaction landed, whose return of the reclaimed balance then landed
\* with the amount the close reported, and whose recoveryTxSignature is the
\* close transaction's signature; a recovery in which either call failed ends
\* in failed.
C27_RecoveredAfterCloseAndReturn ==
  [][/\ \A l \in Loans :
          (store'[l].status = "recovered" /\ store[l] # store'[l]) =>
            LET k == ProgramIndex(store'[l].programId) IN
            /\ programs[k].loanId = l
            /\ programs[k].closed
            /\ programs[k].returned
            /\ programs[k].returnedAmount = ReclaimedSol(k)
            /\ store'[l].recoveryTxSignature = CloseSig(k)
     /\ \A hr \in InFlight :
          /\ hr.pc \in {"pr_balance", "pr_return"} =>
               programs[ProgramIndex(hr.dep.programId)].closed
          /\ hr.pc = "pr_saveRecovered" =>
               programs[ProgramIndex(hr.dep.programId)].returned
          /\ (hr.pc = "pr_saveFailed" /\ Left(hr) /\ crashes' = crashes) =>
               store'[hr.loanId].status = "failed"]_vars

\* A recovery has ended in recovered: closed, returned with the amount of
\* the close, signed by the close.
C27_Witness ==
  \E l \in Loans :
    /\ store[l].status = "recovered"
    /\ lastReturn.outcome = "pr_recovered"
    /\ programs[ProgramIndex(store[l].programId)].returnedAmount =
         ReclaimedSol(ProgramIndex(store[l].programId))
    /\ store[l].recoveryTxSignature = CloseSig(ProgramIndex(store[l].programId))

\* C28: a processRecovery call whose closeProgram or returnReclaimedSol
\* fails persists failed with a non-empty error and returns; within one call
\* the recovering save, closeProgram and returnReclaimedSol are each reached
\* once, in that order, never again after a failure.
C28_RecoveryFailsOnce ==
  [][/\ \A f \in BagToSet(handlers') :
          /\ (f.pc = "pr_saveRecovering" /\ Entered(f)) =>
               \E g \in InFlight : g.pc = "pr_get" /\ Left(g)
          /\ (f.pc = "pr_close" /\ Entered(f)) =>
               \E g \in InFlight : g.pc = "pr_saveRecovering" /\ Left(g)
          /\ (f.pc = "pr_return" /\ Entered(f)) =>
               \E g \in InFlight : g.pc = "pr_balance" /\ Left(g)
          /\ (f.pc = "pr_balance" /\ Entered(f)) =>
               \E g \in InFlight : g.pc = "pr_close" /\ Left(g)
          /\ (f.pc = "pr_saveFailed" /\ Entered(f)) =>
               /\ \E g \in InFlight : g.pc \in {"pr_close", "pr_balance", "pr_return"}
                                        /\ Left(g)
               /\ f.dep.status = "failed"
               /\ f.dep.error # NoError
     /\ \A g \in InFlight :
          (g.pc = "pr_saveFailed" /\ Left(g) /\ crashes' = crashes) =>
            /\ store'[g.loanId].status = "failed"
            /\ store'[g.loanId].error # NoError
            /\ handlers' = handlers (-) SetToBag({g})
            /\ UNCHANGED programs]_vars

\* A recovery whose return of the balance failed after the close landed has
\* ended: failed, with the error, the program closed and nothing returned.
C28_Witness ==
  \E l \in Loans :
    /\ lastReturn.outcome = "pr_failed"
    /\ AllIdle
    /\ store[l].status = "failed"
    /\ store[l].error = ErrReturn
    /\ programs[ProgramIndex(store[l].programId)].closed
    /\ ~programs[ProgramIndex(store[l].programId)].returned

\* C29: while a record is failed with the error of a recovery, a sweep that
\* starts does not list the loan, and a recovery handler that loanRecovered
\* or loanExpired starts for it reads the failed record and returns at its
\* guard: the record, the chain programs and the binary store are left as
\* they were, closeProgram and returnReclaimedSol are not reached.
C29_FailedRecoveryStaysFailed ==
  [][\A l \in Loans :
       (store[l].status = "failed" /\ store[l].error \in {ErrAccountNotFound, ErrClose, ErrReturn}) =>
         /\ (Len(sweep') > Len(sweep)) =>
              \A i \in (Len(sweep) + 1)..Len(sweep') : sweep'[i] # l
         /\ \A g \in InFlight :
              (/\ g.loanId = l
               /\ g.pc = "pr_get"
               /\ Left(g)
               /\ crashes' = crashes) =>
                /\ handlers' = handlers (-) SetToBag({g})
                /\ UNCHANGED <<store, programs, binStore>>]_vars

\* A recovery handler has returned at its guard on a record that an earlier
\* recovery left failed.
C29_Witness ==
  \E l \in Loans :
    /\ lastReturn = [loanId |-> l, outcome |-> "pr_guard"]
    /\ AllIdle
    /\ store[l].status = "failed"
    /\ store[l].error \in {ErrAccountNotFound, ErrClose, ErrReturn}

\* C30: an attempt stores only a payload that validateBinary accepted,
\* calls deployProgram only with a payload accepted and already stored under
\* the loan and its hash, and registers only a program deployed from it; no
\* rejected payload is ever in the binary store or on the chain.
C30_FetchValidateStoreDeploy ==
  LET Accepted(b) == /\ Len(b) >= 4
                     /\ b[1] = 127 /\ b[2] = 69 /\ b[3] = 76 /\ b[4] = 70
                     /\ Len(b) <= 104857600
      Stored(l, b) == [path |-> FilePath(l, Sha256Hex(b)), data |-> b] \in binStore
  IN
  /\ \A hr \in InFlight :
       /\ hr.pc = "pd_store" => Accepted(hr.binaryData)
       /\ hr.pc \in {"pd_deploy", "pd_setDeployed", "pd_saveDeployed"} =>
            /\ Accepted(hr.binaryData)
            /\ Stored(hr.loanId, hr.binaryData)
            /\ hr.dep.binaryHash = Sha256Hex(hr.binaryData)
       /\ hr.pc \in {"pd_setDeployed", "pd_saveDeployed"} =>
            LET k == ProgramIndex(hr.dep.programId) IN
            /\ k \in 1..Len(programs)
            /\ programs[k].loanId = hr.loanId
            /\ programs[k].binary = hr.binaryData
  /\ \A f \in binStore : Accepted(f.data)
  /\ \A k \in 1..Len(programs) :
       /\ Accepted(programs[k].binary)
       /\ Stored(programs[k].loanId, programs[k].binary)

\* The register instruction is in flight for a program deployed from the
\* five-byte payload by a retry, the only payload stored.
C30_Witness ==
  \E hr \in InFlight :
    /\ hr.pc = "pd_setDeployed"
    /\ hr.attempts >= 1
    /\ hr.binaryData = <<127, 69, 76, 70, 1>>
    /\ Cardinality(binStore) = 1
    /\ Len(programs) = 1

\* C35: in every persisted record the error text is set exactly when the
\* status is failed: a pending, deploying, deployed, recovering or recovered
\* record carries no error (a re-requested loan starts from a fresh record),
\* and a failed record carries a non-empty error.
C35_ErrorIffFailed ==
  \A l \in Loans :
    Exists(store[l]) => (store[l].error # NoError <=> store[l].status = "failed")

\* A loan whose first request failed after its deploy landed (maxRetries = 1)
\* and whose second request deployed: the record is deployed with no error.
C35_Witness ==
  \E l \in Loans :
    /\ config.maxRetries = 1
    /\ Cardinality(Deploys(l)) = 2
    /\ store[l].status = "deployed"
    /\ store[l].error = NoError

\* C37: whenever handleLoanRequested returns after having created a record
\* (store writes succeed, no other handler for the loan is in flight), the
\* record is persisted as deployed or failed, never pending or deploying,
\* for every configured maxRetries >= 0.
C37_NoTransientAfterRequest ==
  [][\A hr \in InFlight :
       ( /\ hr.pc \in {"lr_savePending", "pd_saveDeployed", "pdr_saveFailed"}
         /\ crashes' = crashes
         /\ handlers' = handlers (-) SetToBag({hr})
         /\ handlers' # handlers )
       => store'[hr.loanId].status \in {"deployed", "failed"}]_vars

\* C38: whenever processRecovery returns after passing its guard, the record
\* is persisted as recovered or failed, never recovering; the branch that
\* skips closeProgram for a record without programId is not reachable,
\* because every record persisted as deployed carries a programId.
C38_NoTransientAfterRecovery ==
  [][/\ \A g \in InFlight :
          ( /\ g.pc \in {"pr_saveRecovering", "pr_close", "pr_balance", "pr_return",
                         "pr_saveRecovered", "pr_saveFailed"}
            /\ crashes' = crashes
            /\ handlers' = handlers (-) SetToBag({g})
            /\ handlers' # handlers )
          => store'[g.loanId].status \in {"recovered", "failed"}
     /\ \A g \in InFlight :
          g.pc = "pr_saveRecovering" => g.dep.programId # Null
     /\ \A l \in Loans :
          store[l].status = "deployed" => store[l].programId # Null
     /\ lastReturn'.outcome # "pr_noProgram"]_vars

\* A recovery that passed its guard has returned after its close failed: the
\* record is failed, the program is still open.
C38_Witness ==
  \E l \in Loans :
    /\ lastReturn = [loanId |-> l, outcome |-> "pr_failed"]
    /\ store[l].status = "failed"
    /\ store[l].error = ErrClose
    /\ store[l].programId # Null
    /\ ~programs[ProgramIndex(store[l].programId)].closed

\* startPolling's intervals whose callback passes its isRunning test: every
\* interval armed so far while the monitor is running, none while stopped.
SweepingTimers == IF monitor.isRunning THEN monitor.timers ELSE 0

\* C39: after any sequence of start() and stop() calls at most one
\* reconciliation interval is performing sweeps, so that each poll interval
\* triggers one sweep.
C39_OneSweepingTimer == SweepingTimers <= 1

\* C36: while the monitor is running, a record that is deployed and whose
\* loan is expired and still active on chain eventually leaves deployed (or
\* the loan stops being active), given that the timer keeps firing and the
\* fetch of the loan account eventually succeeds.
C36_ExpiryLiveness ==
  \A l \in Loans :
    (store[l].status = "deployed" /\ chainLoans[l] = "active")
      ~> (store[l].status # "deployed" \/ chainLoans[l] # "active")

\* The sweep has acted on a deployed record whose loan is still active on
\* chain: the record is persisted as recovering.
C36_Witness ==
  \E l \in Loans :
    /\ monitor.isRunning
    /\ chainLoans[l] = "active"
    /\ store[l].status = "recovering"

\* C31: createWriteBufferInstructions(data) returns ceil(len / 900) write
\* instructions in ascending offset order; the i-th (from 0) is tagged 1,
\* carries the offset 900 * i and the bytes data[900 * i .. min(900 * (i + 1),
\* len)); every chunk has 1 to 900 bytes, the chunks concatenated in order
\* are the payload, and an empty payload yields no instruction.
C31_ChunkedWrites ==
  LET data == probe.data
      ixs == probe.out
      len == Len(data)
      TagOffset(ix) == ix.data[2] + 256 * ix.data[3] + 65536 * ix.data[4]
                         + 16777216 * ix.data[5]
      Payload(ix) == SubSeq(ix.data, 6, Len(ix.data))
      Position(i) == 900 * (i - 1)
      End(i) == IF 900 * i < len THEN 900 * i ELSE len
  IN probe.op = "createWriteBufferInstructions" =>
       /\ Len(ixs) = (len + 899) \div 900
       /\ len = 0 => ixs = <<>>
       /\ \A i \in 1..Len(ixs) :
            /\ ixs[i].data[1] = 1
            /\ TagOffset(ixs[i]) = Position(i)
            /\ Len(Payload(ixs[i])) = End(i) - Position(i)
            /\ Len(Payload(ixs[i])) \in 1..900
            /\ \A j \in 1..Len(Payload(ixs[i])) :
                 Payload(ixs[i])[j] = data[Position(i) + j]
            /\ ixs[i].keys[1].pubkey = BufferKey(1)
       /\ \A p \in 1..len :
            ixs[((p - 1) \div 900) + 1].data[5 + ((p - 1) % 900) + 1] = data[p]

\* A payload of two full chunks and a byte has been cut into three
\* instructions, the last carrying the one byte at offset 1800.
C31_Witness ==
  /\ probe.op = "createWriteBufferInstructions"
  /\ Len(probe.data) = 1801
  /\ Len(probe.out) = 3
  /\ Len(probe.out[3].data) = 6
  /\ probe.out[3].data[6] = probe.data[1801]

\* C32: every deployProgram invocation uses a buffer key and a program key
\* generated in that invocation: no key of one invocation is a key of
\* another, and within an invocation the create-account, initialise, every
\* write and the finalising instruction name the one buffer key, the
\* finalising instruction the one program key.
C32_FreshKeysPerInvocation ==
  LET calls == probe.calls
      Keyed == {i \in DOMAIN calls : calls[i].bufferAccount # Null}
      Built == {i \in Keyed : calls[i].instructions # <<>>}
  IN
  /\ \A i \in Keyed : calls[i].bufferAccount # calls[i].programId
  /\ \A i \in Keyed : \A j \in Keyed :
       i # j => {calls[i].bufferAccount, calls[i].programId}
                  \cap {calls[j].bufferAccount, calls[j].programId} = {}
  /\ \A i \in Built :
       LET b == calls[i].bufferAccount
           ixs == calls[i].instructions
           n == Len(ixs) IN
       /\ n >= 4
       /\ ixs[2].newAccountPubkey = b
       /\ ixs[3].keys[1].pubkey = b
       /\ \A w \in 4..(n - 1) : ixs[w].data[1] = 1 /\ ixs[w].keys[1].pubkey = b
       /\ ixs[n].data[1] = 2
       /\ ixs[n].keys[3].pubkey = b
       /\ ixs[n].keys[2].pubkey = calls[i].programId
       /\ calls[i].signers[2] = b
       /\ calls[i].signers[3] = calls[i].programId

\* Three invocations, the first two for the same loan and overlapping (the
\* second generated its keys first): the first failed at its send, the
\* second was confirmed, the third has a payload written in two chunks.
C32_Witness ==
  /\ Len(probe.calls) = 3
  /\ probe.calls[1].loanId = probe.calls[2].loanId
  /\ probe.calls[1].pc = "thrown"
  /\ probe.calls[1].instructions # <<>>
  /\ probe.calls[2].pc = "returned"
  /\ probe.calls[2].bufferAccount < probe.calls[1].bufferAccount
  /\ probe.calls[3].pc = "sendAndConfirmTransaction"
  /\ Len(probe.calls[3].instructions) = 6

\* C33: the amount returned to the vault for a loan is the balance reclaimed
\* by closing that loan's program: the deployer PDA's balance after the
\* close minus its balance before, never the funds it already held.
C33_ReturnsReclaimedDelta ==
  \A i \in DOMAIN probe.closes :
    probe.closes[i].pc = "returnReclaimedSol" =>
      probe.closes[i].amountLamports =
        probe.closes[i].after - probe.closes[i].before

\* C34: a decode failure on the push path is swallowed: when the
\* transaction of a marked log line cannot be fetched, has no metadata,
\* fails to parse or holds no event of the marker's name, that line emits
\* nothing, no error escapes processLogs, the loop of that notification
\* goes on with the marked lines that remain, and the processing of every
\* other notification is left as it is.
C34_DecodeFailuresSwallowed ==
  [][LET n == Len(probe'.lines)
         last == probe'.lines[n]
         run == probe.runs[last.run]
         Failed == \/ last.outcome.kind # "events"
                   \/ \A e \in 1..Len(last.outcome.events) :
                        last.outcome.events[e] # last.line
     IN (n > Len(probe.lines) /\ Failed) =>
          /\ probe'.emitted = probe.emitted
          /\ ~probe'.escaped
          /\ Len(probe'.runs) = Len(probe.runs)
          /\ \A i \in DOMAIN probe.runs :
               i # last.run => probe'.runs[i] = probe.runs[i]
          /\ probe'.runs[last.run].at # last.at
          /\ probe'.runs[last.run].at = 0 <=>
               \A j \in (last.at + 1)..Len(run.batch) : run.batch[j] = "other"
          /\ probe'.runs[last.run].at # 0 =>
               /\ probe'.runs[last.run].at > last.at
               /\ run.batch[probe'.runs[last.run].at] # "other"
               /\ \A j \in (last.at + 1)..(probe'.runs[last.run].at - 1) :
                    run.batch[j] = "other"]_vars

\* Two notifications are processed side by side: the fetch for the first
\* line of the first failed, then the parse for the first line of the
\* second, which had arrived meanwhile; after that the second line of the
\* first notification had its event emitted, and the second notification
\* still has a line to handle.
C34_Witness ==
  /\ Len(probe.runs) = 2
  /\ Len(probe.lines) = 3
  /\ probe.lines[1].run = 1 /\ probe.lines[1].outcome.kind = "fetch throws"
  /\ probe.lines[2].run = 2 /\ probe.lines[2].outcome.kind = "parse throws"
  /\ probe.lines[3].run = 1 /\ probe.lines[3].at = 2
  /\ probe.lines[3].outcome.kind = "events"
  /\ Len(probe.emitted) = 1
  /\ probe.emitted[1].line = 3
  /\ probe.runs[2].at = 2
  /\ ~probe.escaped

============================================================================
